---- MODULE Spec2Model ----
(***************************************************************************)
(* Verification model of the NES music player / visualizer.                *)
(*                                                                         *)
(*   - the playback session (main translation unit): the audio callback    *)
(*     audio_stream_callback stepping against the control context          *)
(*     (load_nsf_file, safe_start_track, preprocess_piano_track, the       *)
(*     player buttons, load_midi_file, load_soundfont, load_nes_rom,       *)
(*     cleanup), with audio_mutex and the piano mutex;                     *)
(*   - the note segmentation engine of PianoVisualizer (processApuFrame,   *)
(*     processVrc6Frame, finalizePreprocessing, preprocessMidi).           *)
(*                                                                         *)
(* Times of the segmentation engine are integer milliseconds, velocities   *)
(* are integer thousandths (0.01f is 10, 0.8f is 800), frequencies are     *)
(* integer milli-Hertz.                                                    *)
(***************************************************************************)
EXTENDS Integers, Sequences, FiniteSets, TLC

VARIABLES
    \* ---- playback session (globals of the main translation unit)
    current_mode,      \* AppMode: "NSF_PLAYER", "NES_EMULATOR", "MIDI_PLAYER"
    emu,               \* state.emu: a backend handle, 0 is nullptr
    live_emus,         \* backend handles opened and not yet gme_delete'd
    emu_pos,           \* position of the live backend (gme_tell), in callback periods
    is_playing,        \* state.is_playing
    track_started,     \* state.track_started
    current_track,     \* state.current_track
    track_count,       \* state.track_count
    seek_request,      \* state.seek_request, -1 is "no seek requested"
    playback_time,     \* state.playback_time
    preprocessing,     \* state.preprocessing
    loaded_file,       \* state.loaded_file: 0 is "", else the id of the file
    error_msg,         \* state.error_msg is non-empty
    viz_emu,           \* AudioVisualizer::emu_
    nes,               \* state.nes_emu / nes_rom_loaded: [loaded, running]
    midi_state,        \* midi_state: [soundfont, midi_file, midi_current, midi_time, midi_playing]
    live_midi,         \* tml lists loaded and not yet tml_free'd
    live_sf,           \* soundfonts loaded and not yet tsf_close'd
    audio_mutex,       \* owner of audio_mutex: "none" or a context
    piano_mutex,       \* owner of PianoVisualizer::mutex_
    app_running,       \* FALSE once cleanup has run saudio_shutdown
    \* ---- the two execution contexts
    pc,                \* per context: the statement it is at
    ctl,               \* locals of the control context(s)
    cb,                \* locals of the running audio callback invocation
    \* ---- PianoVisualizer object
    piano,
    \* ---- segmentation harness: the private backend a pass reads
    seg_phase,         \* "idle", "running", "done"
    seg_time,          \* current_time of the chunk loop, in ms
    seg_chunks,        \* chunks_processed
    midi_list,         \* the event list handed to preprocessMidi
    pass_clock,        \* the locals of the chunk loop, current_time as the float it is
    apu_probe,         \* one channel's registers and what processApuFrame infers from them
    api,               \* the last call of a PianoVisualizer method (observation only)
    locks,             \* the four mutexes: their owners, and per context the lock
                       \* operations left in the function it is running
    \* ---- history (observation only; no action reads these to decide)
    hist

sessionVars == <<current_mode, emu, live_emus, emu_pos, is_playing, track_started,
                 current_track, track_count, seek_request, playback_time,
                 preprocessing, loaded_file, error_msg, viz_emu, nes, midi_state,
                 live_midi, live_sf, audio_mutex, piano_mutex, app_running,
                 pc, ctl, cb, hist>>
segVars == <<seg_phase, seg_time, seg_chunks, midi_list, pass_clock, apu_probe, api,
             locks>>
vars == <<sessionVars, piano, segVars>>

-----------------------------------------------------------------------------
(* Program constants *)

PIANO_NUM_CHANNELS_BASE == 5
PIANO_NUM_CHANNELS_VRC6 == 3
PIANO_NUM_CHANNELS_MIDI == 16
PIANO_NUM_CHANNELS_MAX == 16
NES_CPU_CLOCK == 1789773
NoSeek == -1
(* 0.01f and 0.005f seconds as milliseconds, 0.01f velocity as thousandths *)
MinNoteMs == 10
MinMidiNoteMs == 5
MinVelocity == 10
FixedVelocity == 800
DmcNote == 28
NoiseBaseNote == 36
(* chunk_samples / sample_rate = 1024 / 44100 s, in ms *)
TimePerChunk == 23
MidiTailMs == 500

-----------------------------------------------------------------------------
(* Bounds of the model *)

MaxChunks == 3
MaxMidiEvents == 3

Channels == 0 .. (PIANO_NUM_CHANNELS_MAX - 1)

Min(a, b) == IF a < b THEN a ELSE b

AbsIdentity(a) == a

Abs(a) == IF a < 0 THEN 0 - a ELSE a
Pow2(n) == IF n = 0 THEN 1 ELSE IF n = 1 THEN 2 ELSE IF n = 2 THEN 4
           ELSE IF n = 3 THEN 8 ELSE IF n = 4 THEN 16 ELSE IF n = 5 THEN 32
           ELSE IF n = 6 THEN 64 ELSE IF n = 7 THEN 128 ELSE IF n = 8 THEN 256
           ELSE IF n = 9 THEN 512 ELSE 1024

-----------------------------------------------------------------------------
(* Pitch inference *)

(* Lower edge, in mHz, of the band of frequencies that round to note 120+k:  *)
(* 440 * 2^((120 + k - 69.5) / 12) Hz.                                       *)
TopOctaveEdge ==
    <<8133683, 8617337, 9129750, 9672634, 10247798, 10857164,
      11502765, 12186755, 12911417, 13679170, 14492575, 15354349>>

(* Lower edge of the band of note n, 0 <= n <= 131: an octave halves it. *)
NoteEdge(n) == TopOctaveEdge[(n % 12) + 1] \div Pow2(10 - (n \div 12))

(* frequencyToMidi: round(69 + 12 log2(f / 440)), -1 outside 0..127 and for *)
(* f <= 0.  The rounded value is the number of note bands at or below f.     *)
frequencyToMidi(freq_mHz) ==
    IF freq_mHz <= 0 THEN -1
    ELSE LET note == Cardinality({n \in 0..128 : NoteEdge(n) <= freq_mHz}) - 1
         IN  IF note < 0 \/ note > 127 THEN -1 ELSE note

(* The variant divides by 32, an octave below *)
PeriodFreqOctaveBelow(period) == (NES_CPU_CLOCK * 1000) \div (32 * (period + 1))

(* NES_CPU_CLOCK / (16.0f * (period + 1)), in mHz *)
PeriodFreq(period) == (NES_CPU_CLOCK * 1000) \div (16 * (period + 1))

(* min(1.0f, amp / d) in thousandths *)
Velocity(amp, d) == Min(1000, (amp * 1000) \div d)

(* Per-channel inference of processApuFrame: (midi_note, velocity) of base  *)
(* channel ch from its registers r = [period, length, amp].                 *)
ApuInfer(ch, r) ==
    LET amp == Abs(r.amp)
    IN  IF ch = 3 THEN
            IF r.length > 0 /\ amp > 0
            THEN [midi_note |-> NoiseBaseNote + (15 - (r.period % 16)),
                  velocity |-> Velocity(amp, 15)]
            ELSE [midi_note |-> -1, velocity |-> 0]
        ELSE IF ch = 4 THEN
            IF r.length > 0
            THEN [midi_note |-> DmcNote, velocity |-> FixedVelocity]
            ELSE [midi_note |-> -1, velocity |-> 0]
        ELSE IF ch = 2 THEN
            IF r.length > 0 /\ r.period >= 8
            THEN [midi_note |-> frequencyToMidi(PeriodFreq(r.period)),
                  velocity |-> FixedVelocity]
            ELSE [midi_note |-> -1, velocity |-> 0]
        ELSE
            IF r.length > 0 /\ amp > 0 /\ r.period >= 8
            THEN [midi_note |-> frequencyToMidi(PeriodFreq(r.period)),
                  velocity |-> Velocity(amp, 15)]
            ELSE [midi_note |-> -1, velocity |-> 0]

(* Per-channel inference of processVrc6Frame for expansion channel i (0..2) *)
(* from r = [period, volume, enabled].                                      *)
Vrc6Infer(i, r) ==
    IF r.enabled /\ r.volume > 0 /\ r.period >= 1
    THEN [midi_note |-> frequencyToMidi(PeriodFreq(r.period)),
          velocity |-> IF i < 2 THEN Velocity(r.volume, 15)
                                ELSE Velocity(r.volume, 42)]
    ELSE [midi_note |-> -1, velocity |-> 0]

-----------------------------------------------------------------------------
(* PianoVisualizer: note segmentation *)

(* The (channel, key) pairs of midi_note_states_ the model's event lists use *)
MidiChs == {0, 1}
MidiKeys == {60, 64}

Note(ch, n, v, s, e) ==
    [channel |-> ch, midi_note |-> n, velocity |-> v, start_time |-> s, end_time |-> e]

NoCurrentNote == [midi_note |-> 0, velocity |-> 0, active |-> FALSE]
NoMidiNote == [active |-> FALSE, start_time |-> 0, velocity |-> 0]

(* PianoVisualizer::reset: the state the constructor leaves; has_vrc6_ and  *)
(* is_midi_mode_ are not touched by reset.                                  *)
PianoReset(p) ==
    [p EXCEPT !.current_notes_ = [c \in Channels |-> NoCurrentNote],
              !.preprocess_prev_notes_ = [c \in Channels |-> -1],
              !.preprocess_note_start_ = [c \in Channels |-> 0],
              !.preprocess_note_velocity_ = [c \in Channels |-> 0],
              !.preprocessed_notes_ = <<>>,
              !.has_preprocessed_data_ = FALSE,
              !.track_duration_ = 0]

PianoInit ==
    [current_notes_ |-> [c \in Channels |-> NoCurrentNote],
     preprocess_prev_notes_ |-> [c \in Channels |-> -1],
     preprocess_note_start_ |-> [c \in Channels |-> 0],
     preprocess_note_velocity_ |-> [c \in Channels |-> 0],
     preprocessed_notes_ |-> <<>>,
     has_preprocessed_data_ |-> FALSE,
     track_duration_ |-> 0,
     has_vrc6_ |-> FALSE,
     is_midi_mode_ |-> FALSE,
     midi_note_states_ |-> [k \in MidiChs \X MidiKeys |-> NoMidiNote]]

(* The note is kept only if it lasts longer than the threshold (the variant *)
(* keeps a note whatever its length)                                        *)
KeepNoteOfAnyLength(note, min_ms) == note.end_time - note.start_time >= 0
KeepNote(note, min_ms) == note.end_time - note.start_time > min_ms

PushIf(notes, note, min_ms) ==
    IF KeepNote(note, min_ms) THEN Append(notes, note) ELSE notes

(* preprocess_note_start_[ch] = current_time: a note opens at the time of   *)
(* the snapshot that closed the one before it (the variant leaves the start *)
(* of the note before it in place).                                         *)
NoteStartStale(p, ch, current_time) == p.preprocess_note_start_[ch]
NoteStart(p, ch, current_time) == current_time

(* The variant takes the velocity of every step of a run *)
SegmentStepTracksVelocity(p, ch, midi_note, velocity, current_time) ==
    LET prev_note == p.preprocess_prev_notes_[ch]
    IN  IF midi_note # prev_note \/ velocity < MinVelocity THEN
            LET closed ==
                    IF prev_note >= 0 /\ prev_note <= 127
                    THEN PushIf(p.preprocessed_notes_,
                                Note(ch, prev_note, p.preprocess_note_velocity_[ch],
                                     p.preprocess_note_start_[ch], current_time),
                                MinNoteMs)
                    ELSE p.preprocessed_notes_
            IN  IF midi_note >= 0 /\ midi_note <= 127 /\ velocity > MinVelocity
                THEN [p EXCEPT !.preprocessed_notes_ = closed,
                               !.preprocess_prev_notes_[ch] = midi_note,
                               !.preprocess_note_start_[ch] = NoteStart(p, ch, current_time),
                               !.preprocess_note_velocity_[ch] = velocity]
                ELSE [p EXCEPT !.preprocessed_notes_ = closed,
                               !.preprocess_prev_notes_[ch] = -1]
        ELSE [p EXCEPT !.preprocess_note_velocity_[ch] = velocity]

(* The transition of one channel at one time step (the tail of the loop     *)
(* body of processApuFrame, repeated verbatim in processVrc6Frame).         *)
SegmentStep(p, ch, midi_note, velocity, current_time) ==
    LET prev_note == p.preprocess_prev_notes_[ch]
    IN  IF midi_note # prev_note \/ velocity < MinVelocity THEN
            LET closed ==
                    IF prev_note >= 0 /\ prev_note <= 127
                    THEN PushIf(p.preprocessed_notes_,
                                Note(ch, prev_note, p.preprocess_note_velocity_[ch],
                                     p.preprocess_note_start_[ch], current_time),
                                MinNoteMs)
                    ELSE p.preprocessed_notes_
            IN  IF midi_note >= 0 /\ midi_note <= 127 /\ velocity > MinVelocity
                THEN [p EXCEPT !.preprocessed_notes_ = closed,
                               !.preprocess_prev_notes_[ch] = midi_note,
                               !.preprocess_note_start_[ch] = NoteStart(p, ch, current_time),
                               !.preprocess_note_velocity_[ch] = velocity]
                ELSE [p EXCEPT !.preprocessed_notes_ = closed,
                               !.preprocess_prev_notes_[ch] = -1]
        ELSE p

RECURSIVE ApuFrameFrom(_, _, _, _)
ApuFrameFrom(p, ch, regs, current_time) ==
    IF ch >= PIANO_NUM_CHANNELS_BASE THEN p
    ELSE LET inf == ApuInfer(ch, regs[ch])
         IN  ApuFrameFrom(SegmentStep(p, ch, inf.midi_note, inf.velocity, current_time),
                          ch + 1, regs, current_time)

(* processApuFrame(periods, lengths, amplitudes, current_time) *)
processApuFrame(p, regs, current_time) == ApuFrameFrom(p, 0, regs, current_time)

RECURSIVE Vrc6FrameFrom(_, _, _, _)
Vrc6FrameFrom(p, i, regs, current_time) ==
    IF i >= PIANO_NUM_CHANNELS_VRC6 THEN p
    ELSE LET inf == Vrc6Infer(i, regs[i])
         IN  Vrc6FrameFrom(SegmentStep(p, PIANO_NUM_CHANNELS_BASE + i,
                                       inf.midi_note, inf.velocity, current_time),
                           i + 1, regs, current_time)

(* processVrc6Frame(periods, volumes, enabled, current_time) *)
processVrc6Frame(p, regs, current_time) == Vrc6FrameFrom(p, 0, regs, current_time)

(* The variant leaves the notes in the order they were pushed *)
KeepPushOrder(notes) == notes

(* std::sort by start_time: insertion of each note after the notes that do  *)
(* not start later (ties keep their order; the order std::sort gives ties is *)
(* some fixed order for a given input).                                     *)
RECURSIVE InsertByStart(_, _)
InsertByStart(sorted, note) ==
    IF sorted = <<>> THEN <<note>>
    ELSE IF note.start_time < Head(sorted).start_time THEN <<note>> \o sorted
    ELSE <<Head(sorted)>> \o InsertByStart(Tail(sorted), note)

RECURSIVE SortByStart(_)
SortByStart(notes) ==
    IF notes = <<>> THEN <<>>
    ELSE InsertByStart(SortByStart(SubSeq(notes, 1, Len(notes) - 1)), notes[Len(notes)])

(* The force-close loop of finalizePreprocessing over channels ch.. *)
RECURSIVE CloseOpenFrom(_, _, _)
CloseOpenFrom(p, ch, end_time) ==
    IF ch >= PIANO_NUM_CHANNELS_MAX THEN p
    ELSE LET prev_note == p.preprocess_prev_notes_[ch]
             notes == IF prev_note >= 0 /\ prev_note <= 127
                      THEN PushIf(p.preprocessed_notes_,
                                  Note(ch, prev_note, p.preprocess_note_velocity_[ch],
                                       p.preprocess_note_start_[ch], end_time),
                                  MinNoteMs)
                      ELSE p.preprocessed_notes_
         IN  CloseOpenFrom([p EXCEPT !.preprocessed_notes_ = notes,
                                     !.preprocess_prev_notes_[ch] = -1],
                           ch + 1, end_time)

(* finalizePreprocessing(end_time) *)
finalizePreprocessing(p, end_time) ==
    LET c == CloseOpenFrom(p, 0, end_time)
    IN  [c EXCEPT !.preprocessed_notes_ = SortByStart(c.preprocessed_notes_),
                  !.track_duration_ = end_time,
                  !.has_preprocessed_data_ = TRUE]

(* The variant resets the per-channel state but neither clears the notes  *)
(* nor the ready flag                                                      *)
PreprocessTrackResetKeepsTimeline(p, vrc6) ==
    [p EXCEPT !.has_vrc6_ = vrc6,
              !.preprocess_prev_notes_ = [c \in Channels |-> -1],
              !.preprocess_note_start_ = [c \in Channels |-> 0],
              !.preprocess_note_velocity_ = [c \in Channels |-> 0]]

(* The variant resets everything but the note list *)
PreprocessTrackResetKeepsNotes(p, vrc6) ==
    [p EXCEPT !.has_preprocessed_data_ = FALSE,
              !.track_duration_ = 0,
              !.has_vrc6_ = vrc6,
              !.preprocess_prev_notes_ = [c \in Channels |-> -1],
              !.preprocess_note_start_ = [c \in Channels |-> 0],
              !.preprocess_note_velocity_ = [c \in Channels |-> 0]]

(* The reset at the head of preprocessTrack (after taking mutex_) *)
PreprocessTrackReset(p, vrc6) ==
    [p EXCEPT !.preprocessed_notes_ = <<>>,
              !.has_preprocessed_data_ = FALSE,
              !.track_duration_ = 0,
              !.has_vrc6_ = vrc6,
              !.preprocess_prev_notes_ = [c \in Channels |-> -1],
              !.preprocess_note_start_ = [c \in Channels |-> 0],
              !.preprocess_note_velocity_ = [c \in Channels |-> 0]]

(* One iteration of the chunk loop of preprocessTrack at time current_time, *)
(* the backend showing snapshot snap = [apu, vrc6] after gme_play.          *)
ProcessChunk(p, snap, current_time) ==
    LET a == processApuFrame(p, snap.apu, current_time)
    IN  IF p.has_vrc6_ THEN processVrc6Frame(a, snap.vrc6, current_time) ELSE a

-----------------------------------------------------------------------------
(* PianoVisualizer::preprocessMidi *)

(* The variant closes the key without state.active = false *)
MidiCloseKeepsActive(p, ch, key, current_time) ==
    LET st == p.midi_note_states_[<<ch, key>>]
    IN  IF st.active
        THEN [p EXCEPT !.preprocessed_notes_ =
                           PushIf(@, Note(ch, key, st.velocity, st.start_time, current_time),
                                  MinMidiNoteMs)]
        ELSE p

(* Closing (channel, key) at current_time: the body shared by the        *)
(* zero-velocity note-on case and the TML_NOTE_OFF case.                    *)
MidiClose(p, ch, key, current_time) ==
    LET st == p.midi_note_states_[<<ch, key>>]
    IN  IF st.active
        THEN [p EXCEPT !.preprocessed_notes_ =
                           PushIf(@, Note(ch, key, st.velocity, st.start_time, current_time),
                                  MinMidiNoteMs),
                       !.midi_note_states_[<<ch, key>>].active = FALSE]
        ELSE p

(* The variant has no zero-velocity case: every note-on starts the key *)
MidiMessageEveryOnStarts(p, msg) ==
    IF msg.type = "NOTE_ON"
    THEN [p EXCEPT !.midi_note_states_[<<msg.channel, msg.key>>] =
                       [active |-> TRUE, start_time |-> msg.time,
                        velocity |-> (msg.velocity * 1000) \div 127]]
    ELSE IF msg.type = "NOTE_OFF" THEN MidiClose(p, msg.channel, msg.key, msg.time)
    ELSE p

(* The switch on msg->type for one message *)
MidiMessage(p, msg) ==
    IF msg.type = "NOTE_ON" THEN
        IF msg.velocity > 0
        THEN [p EXCEPT !.midi_note_states_[<<msg.channel, msg.key>>] =
                           [active |-> TRUE, start_time |-> msg.time,
                            velocity |-> (msg.velocity * 1000) \div 127]]
        ELSE MidiClose(p, msg.channel, msg.key, msg.time)
    ELSE IF msg.type = "NOTE_OFF" THEN MidiClose(p, msg.channel, msg.key, msg.time)
    ELSE p

RECURSIVE MidiMessagesFrom(_, _, _)
MidiMessagesFrom(p, list, i) ==
    IF i > Len(list) THEN p
    ELSE MidiMessagesFrom(MidiMessage(p, list[i]), list, i + 1)

RECURSIVE MaxTimeFrom(_, _, _)
MaxTimeFrom(list, i, max_time) ==
    IF i > Len(list) THEN max_time
    ELSE MaxTimeFrom(list, i + 1, IF list[i].time > max_time THEN list[i].time ELSE max_time)

(* (channel, key) pairs in the order of the closing loops *)
MidiPairOrder == <<<<0, 60>>, <<0, 64>>, <<1, 60>>, <<1, 64>>>>

RECURSIVE MidiCloseRemainingFrom(_, _, _)
MidiCloseRemainingFrom(p, i, end_time) ==
    IF i > Len(MidiPairOrder) THEN p
    ELSE LET k == MidiPairOrder[i]
             st == p.midi_note_states_[k]
         IN  MidiCloseRemainingFrom(
                 IF st.active
                 THEN [p EXCEPT !.preprocessed_notes_ =
                                    Append(@, Note(k[1], k[2], st.velocity,
                                                   st.start_time, end_time)),
                                !.midi_note_states_[k].active = FALSE]
                 ELSE p,
                 i + 1, end_time)

(* preprocessMidi(midi_data); has_list is midi_data != nullptr *)
preprocessMidi(p, has_list, list) ==
    LET cleared == [p EXCEPT !.preprocessed_notes_ = <<>>,
                             !.midi_note_states_ = [k \in MidiChs \X MidiKeys |-> NoMidiNote],
                             !.current_notes_ = [c \in Channels |-> NoCurrentNote]]
    IN  IF ~has_list THEN [cleared EXCEPT !.has_preprocessed_data_ = FALSE]
        ELSE LET max_time == MaxTimeFrom(list, 1, 0)
                 walked == MidiMessagesFrom([cleared EXCEPT !.is_midi_mode_ = TRUE,
                                                            !.has_vrc6_ = FALSE],
                                            list, 1)
                 closed == MidiCloseRemainingFrom(walked, 1, max_time + MidiTailMs)
             IN  [closed EXCEPT !.preprocessed_notes_ = SortByStart(@),
                                !.track_duration_ = max_time + MidiTailMs,
                                !.has_preprocessed_data_ = TRUE]

(* The live-display update of updateFromAPU for base channels ch.. (taken   *)
(* under mutex_): the same inference, written to current_notes_.            *)
RECURSIVE UpdateFromApuFrom(_, _, _)
UpdateFromApuFrom(p, ch, regs) ==
    IF ch >= PIANO_NUM_CHANNELS_BASE THEN p
    ELSE LET inf == ApuInfer(ch, regs[ch])
             on == inf.midi_note >= 0 /\ inf.midi_note <= 127 /\ inf.velocity > MinVelocity
         IN  UpdateFromApuFrom(
                 IF on
                 THEN [p EXCEPT !.current_notes_[ch] =
                           [midi_note |-> inf.midi_note, velocity |-> inf.velocity,
                            active |-> TRUE]]
                 ELSE [p EXCEPT !.current_notes_[ch].active = FALSE],
                 ch + 1, regs)

updateFromAPU(p, regs) == UpdateFromApuFrom(p, 0, regs)

-----------------------------------------------------------------------------
(* The decode backend as the session sees it *)

(* Bounds: length of a track in callback periods, tracks per file, seek     *)
(* stores the history follows, MIDI time in callback periods.               *)
TrackLen == 1
MaxTracks == 2
MaxMidiPeriods == 2

(* One callback period (2048 frames at 44100 Hz) in ms *)
FramesMs == 46

Silent == [period |-> 0, length |-> 0, amp |-> 0]
Tone(period, amp) == [period |-> period, length |-> 1, amp |-> amp]
Vrc6Off == [period |-> 0, volume |-> 0, enabled |-> FALSE]

ApuRegs(c0, c1, c2, c3, c4) ==
    [ch \in 0..4 |-> IF ch = 0 THEN c0 ELSE IF ch = 1 THEN c1 ELSE IF ch = 2 THEN c2
                     ELSE IF ch = 3 THEN c3 ELSE c4]
Vrc6Regs(v0, v1, v2) ==
    [i \in 0..2 |-> IF i = 0 THEN v0 ELSE IF i = 1 THEN v1 ELSE v2]

ApuSilent == ApuRegs(Silent, Silent, Silent, Silent, Silent)
Vrc6Silent == Vrc6Regs(Vrc6Off, Vrc6Off, Vrc6Off)

(* What the oscillators of a backend playing track t show after its k-th    *)
(* chunk: the tracks of the files the session model loads.                  *)
TrackSnapshot(t, k) ==
    [apu |-> IF k <= 2 THEN ApuRegs(Tone(253 - 127 * t, 8), Silent,
                                    IF k = 2 THEN Tone(100, 0) ELSE Silent,
                                    Silent, Silent)
             ELSE ApuSilent,
     vrc6 |-> Vrc6Silent]

(* Chunks after which the private backend reports gme_track_ended *)
TrackChunks(t) == 3 + t

(* The chunk loop of preprocessTrack and the finalization after it: chunk k *)
(* is processed at time current_time while the clock is below the horizon   *)
(* and the backend has not ended.                                           *)
RECURSIVE ChunkLoop(_, _, _, _, _)
ChunkLoop(p, t, k, current_time, estimated_duration) ==
    IF current_time < estimated_duration /\ k <= TrackChunks(t)
    THEN ChunkLoop(ProcessChunk(p, TrackSnapshot(t, k), current_time),
                   t, k + 1, current_time + TimePerChunk, estimated_duration)
    ELSE finalizePreprocessing(p, current_time)

(* info.length > 0 ? info.length / 1000.0f : 180.0f, capped at 300.0f; ms *)
DefaultDurationMs == 180000
MaxDurationMs == 300000
EstimatedDuration(length_ms) ==
    Min(IF length_ms > 0 THEN length_ms ELSE DefaultDurationMs, MaxDurationMs)

(* What the live backend's oscillators show at position pos of track t *)
LiveSnapshot(t, pos) == TrackSnapshot(t, pos)

-----------------------------------------------------------------------------
(* Session: initial state *)

Null == 0
(* A null tml_message pointer; a node is a list handle and a position in it *)
NullNode == [list |-> Null, idx |-> 0]
UiContexts == {"ui"}
Requesters == {"ui", "worker"}
Contexts == {"ui", "worker", "audio"}

(* after: what the caller of preprocess_piano_track does next; advanced:   *)
(* the caller is the auto-advance of the player window                     *)
CtlInit == [track |-> 0, pre_track |-> 0, pre_emu |-> Null, after |-> "return",
            outcome |-> "ok", count |-> 1, file |-> 1, advanced |-> FALSE]
CbInit == [end_time |-> 0, mode |-> "NSF_PLAYER"]

HistInit ==
    [seek_fresh |-> FALSE,       \* seek_request holds a target not applied yet
     last_target |-> NoSeek,     \* the target stored last, if not exchanged since
     pending_stores |-> 0,       \* targets stored since the last exchange (0, 1, 2: more)
     applied_stale |-> FALSE,    \* a target was applied that was not fresh
     applied_wrong |-> FALSE,    \* a target was applied that was not the last stored
     applied_late |-> FALSE,     \* a target was applied after gme_play in its invocation
     applied_of_many |-> FALSE,  \* the invocation applied the last of several targets
     cb_applied |-> FALSE,       \* the invocation applied a seek
     cb_stored |-> FALSE,        \* a target was stored since the invocation began
     xch_stored |-> FALSE,       \* a target was stored since the invocation's exchange
     prev_failed |-> FALSE,      \* gme_play failed in the invocation before this one
     cb_exchanged |-> FALSE,     \* the invocation reached the exchange
     cb_played |-> FALSE,        \* the invocation called gme_play
     play_failed |-> FALSE,      \* gme_play failed in the running invocation
     failed_pass |-> "none",     \* "returned": the last preprocessTrack returned false;
                                 \* "updated": and updateFromAPU has run since
     midi_ended |-> FALSE,       \* the last invocation found the event cursor at the
                                 \* end, and no stop, seek, load or play came since
     emu_started |-> FALSE]      \* gme_start_track has been called on state.emu

SessionInit ==
    /\ current_mode = "NSF_PLAYER"
    /\ emu = Null
    /\ live_emus = {}
    /\ emu_pos = 0
    /\ is_playing = FALSE
    /\ track_started = FALSE
    /\ current_track = 0
    /\ track_count = 0
    /\ seek_request = NoSeek
    /\ playback_time = 0
    /\ preprocessing = FALSE
    /\ loaded_file = 0
    /\ error_msg = FALSE
    /\ viz_emu = Null
    /\ nes = [loaded |-> FALSE, running |-> FALSE]
    /\ midi_state = [soundfont |-> Null, midi_file |-> Null, midi_current |-> NullNode,
                     midi_time |-> 0, midi_playing |-> FALSE]
    /\ live_midi = <<>>
    /\ live_sf = {}
    /\ audio_mutex = "none"
    /\ piano_mutex = "none"
    /\ app_running = TRUE
    /\ pc = [c \in Contexts |-> "idle"]
    /\ ctl = [c \in Requesters |-> CtlInit]
    /\ cb = CbInit
    /\ hist = HistInit

ProbeIdle == [ch |-> -1, period |-> 0, length |-> 0, amp |-> 0,
              midi_note |-> -1, velocity |-> 0, sounding |-> FALSE]

(* op: the method called last; track: the track of the last preprocessTrack; *)
(* dirty: that call found a timeline, a sounding key or the MIDI flag left  *)
(* by the calls before it                                                   *)
ApiIdle == [op |-> "none", track |-> -1, dirty |-> FALSE]

(* audio_mutex (main), AudioVisualizer::audio_mutex_, PianoVisualizer::mutex_ *)
(* and NesEmulator::mutex_                                                   *)
Mutexes == {"audio_mutex", "visualizer", "piano", "emulator"}

(* The audio thread (the stream callback) and the main thread (frame, input, *)
(* cleanup)                                                                  *)
LockContexts == {"audio", "ui"}

LocksIdle == [owner |-> [m \in Mutexes |-> "none"],
              todo |-> [c \in LockContexts |-> <<>>]]

(* A float: m * 2^(e - 23) with 2^23 <= m < 2^24, or zero *)
F32Zero == [m |-> 0, e |-> 0]

ClockIdle == [phase |-> "idle", current_time |-> F32Zero, estimated_duration |-> 0,
              chunks_processed |-> 0]

SegIdle ==
    /\ seg_phase = "idle"
    /\ seg_time = 0
    /\ seg_chunks = 0
    /\ midi_list = <<>>
    /\ pass_clock = ClockIdle
    /\ apu_probe = ProbeIdle
    /\ api = ApiIdle
    /\ locks = LocksIdle

Init == SessionInit /\ piano = PianoInit /\ SegIdle

-----------------------------------------------------------------------------
(* audio_stream_callback, one action per stretch between the points at     *)
(* which the control context can be observed or observe it                 *)

Handles == 1..3

(* The handle the allocator returns: that of no live object (the address   *)
(* of a freed one may be given out again)                                  *)
FreshEmu == CHOOSE h \in Handles : h \notin live_emus

EmuLive(h) == h # Null /\ h \in live_emus
SfLive(h) == h # Null /\ h \in live_sf
NodeLive(n) == n # NullNode /\ n.list \in DOMAIN live_midi

SetPc(c, l) == pc' = [pc EXCEPT ![c] = l]

(* The invocation returns having written `out` *)
CbReturn(h) ==
    /\ SetPc("audio", "idle")
    /\ cb' = CbInit
    /\ hist' = [h EXCEPT !.cb_applied = FALSE, !.applied_of_many = FALSE,
                         !.cb_stored = FALSE, !.xch_stored = FALSE,
                         !.cb_exchanged = FALSE, !.cb_played = FALSE,
                         !.play_failed = FALSE, !.prev_failed = h.play_failed]

(* The process dies in the callback (a fault on a dead object) *)
CbCrash(h) ==
    /\ SetPc("audio", "crashed")
    /\ hist' = h
    /\ app_running' = FALSE

(* The mode tests at the head of the callback *)
DispatchTarget ==
    IF current_mode = "MIDI_PLAYER" /\ midi_state.soundfont # Null /\ midi_state.midi_playing
    THEN "midi_render"
    ELSE IF current_mode = "NES_EMULATOR" /\ nes.running THEN "nes_read"
    ELSE "nsf_check"

CbDispatch ==
    /\ app_running /\ pc["audio"] = "idle"
    /\ DispatchTarget = "midi_render" => midi_state.midi_time < MaxMidiPeriods * FramesMs
    /\ SetPc("audio", DispatchTarget)
    /\ cb' = [end_time |-> 0, mode |-> current_mode]
    /\ hist' = [hist EXCEPT !.midi_ended = FALSE]
    /\ UNCHANGED <<current_mode, emu, live_emus, emu_pos, is_playing, track_started,
                   current_track, track_count, seek_request, playback_time,
                   preprocessing, loaded_file, error_msg, viz_emu, nes, midi_state,
                   live_midi, live_sf, audio_mutex, piano_mutex, app_running, ctl,
                   piano, segVars>>

(* ---- MIDI branch *)

(* tsf_render_float on midi_state.soundfont; end_time = midi_time + frames *)
CbMidiRender ==
    /\ app_running /\ pc["audio"] = "midi_render"
    /\ cb' = [cb EXCEPT !.end_time = midi_state.midi_time + FramesMs]
    /\ IF SfLive(midi_state.soundfont)
       THEN /\ SetPc("audio", "midi_loop")
            /\ hist' = hist
            /\ UNCHANGED app_running
       ELSE \* the soundfont was closed under the callback: a fault, or a
            \* render from freed memory
            \/ CbCrash(hist)
            \/ /\ SetPc("audio", "midi_loop")
               /\ hist' = hist
               /\ UNCHANGED app_running
    /\ UNCHANGED <<current_mode, emu, live_emus, emu_pos, is_playing, track_started,
                   current_track, track_count, seek_request, playback_time,
                   preprocessing, loaded_file, error_msg, viz_emu, nes, midi_state,
                   live_midi, live_sf, audio_mutex, piano_mutex, ctl, piano, segVars>>

(* The variant steps over the message after this one *)
NextNodeSkipsOne(n) ==
    IF n.idx + 1 < Len(live_midi[n.list]) THEN [list |-> n.list, idx |-> n.idx + 2]
    ELSE NullNode

(* msg->next of a live node *)
NextNode(n) ==
    IF n.idx < Len(live_midi[n.list]) THEN [list |-> n.list, idx |-> n.idx + 1] ELSE NullNode

(* One evaluation of the while condition and, if it holds, one iteration:  *)
(* the message is dispatched to the soundfont and the cursor advanced.     *)
CbMidiLoop ==
    /\ app_running /\ pc["audio"] = "midi_loop"
    /\ LET cur == midi_state.midi_current
       IN  IF cur = NullNode THEN
               /\ SetPc("audio", "midi_end")
               /\ UNCHANGED <<midi_state, hist, app_running>>
           ELSE IF NodeLive(cur) THEN
               IF live_midi[cur.list][cur.idx].time < cb.end_time
               THEN /\ midi_state' = [midi_state EXCEPT !.midi_current = NextNode(cur)]
                    /\ IF SfLive(midi_state.soundfont)
                       THEN /\ UNCHANGED <<pc, app_running>>
                            /\ hist' = hist
                       ELSE \/ CbCrash(hist)
                            \/ /\ UNCHANGED <<pc, app_running>>
                               /\ hist' = hist
               ELSE /\ SetPc("audio", "midi_end")
                    /\ UNCHANGED <<midi_state, hist, app_running>>
           ELSE
               \* the node was freed under the callback: a fault, or whatever
               \* the freed memory holds is read as time and next
               \/ /\ CbCrash(hist)
                  /\ UNCHANGED midi_state
               \/ /\ SetPc("audio", "midi_end")
                  /\ hist' = hist
                  /\ UNCHANGED <<midi_state, app_running>>
               \/ /\ UNCHANGED <<pc, app_running>>
                  /\ hist' = hist
                  /\ midi_state' = [midi_state EXCEPT !.midi_current = NullNode]
    /\ UNCHANGED <<current_mode, emu, live_emus, emu_pos, is_playing, track_started,
                   current_track, track_count, seek_request, playback_time,
                   preprocessing, loaded_file, error_msg, viz_emu, nes,
                   live_midi, live_sf, audio_mutex, piano_mutex, ctl, cb, piano, segVars>>

(* The variant rewinds when the list has ended, as the stop button does *)
MidiEndedRewinds(m) ==
    [m EXCEPT !.midi_playing = FALSE, !.midi_time = 0,
              !.midi_current = IF m.midi_file = Null THEN NullNode
                               ELSE [list |-> m.midi_file, idx |-> 1]]

(* if (!midi_state.midi_current) midi_state.midi_playing = false; *)
MidiEnded(m) == [m EXCEPT !.midi_playing = FALSE]

(* midi_time = end_time; the ended test; the visualizer update; return *)
CbMidiEnd ==
    /\ app_running /\ pc["audio"] = "midi_end"
    /\ midi_state' = IF midi_state.midi_current = NullNode
                     THEN MidiEnded([midi_state EXCEPT !.midi_time = cb.end_time])
                     ELSE [midi_state EXCEPT !.midi_time = cb.end_time]
    /\ CbReturn([hist EXCEPT !.midi_ended = (midi_state.midi_current = NullNode)])
    /\ UNCHANGED <<current_mode, emu, live_emus, emu_pos, is_playing, track_started,
                   current_track, track_count, seek_request, playback_time,
                   preprocessing, loaded_file, error_msg, viz_emu, nes,
                   live_midi, live_sf, audio_mutex, piano_mutex, app_running, ctl,
                   piano, segVars>>

(* ---- emulator branch *)

(* readAudioSamples, the visualizer update, getApuState *)
CbNesRead ==
    /\ app_running /\ pc["audio"] = "nes_read"
    /\ SetPc("audio", "nes_piano")
    /\ UNCHANGED <<current_mode, emu, live_emus, emu_pos, is_playing, track_started,
                   current_track, track_count, seek_request, playback_time,
                   preprocessing, loaded_file, error_msg, viz_emu, nes, midi_state,
                   live_midi, live_sf, audio_mutex, piano_mutex, app_running, ctl, cb,
                   piano, segVars, hist>>

(* piano.updateFromAPU under the piano mutex, setVRC6Enabled, the output *)
CbNesPiano ==
    /\ app_running /\ pc["audio"] = "nes_piano"
    /\ piano_mutex = "none"
    /\ piano' = [updateFromAPU(piano, ApuSilent) EXCEPT !.has_vrc6_ = FALSE]
    /\ CbReturn(hist)
    /\ UNCHANGED <<current_mode, emu, live_emus, emu_pos, is_playing, track_started,
                   current_track, track_count, seek_request, playback_time,
                   preprocessing, loaded_file, error_msg, viz_emu, nes, midi_state,
                   live_midi, live_sf, audio_mutex, piano_mutex, app_running, ctl,
                   segVars>>

(* ---- chiptune branch *)

(* if (!state.emu || !state.is_playing.load()): silence, return *)
CbNsfCheck ==
    /\ app_running /\ pc["audio"] = "nsf_check"
    /\ IF emu = Null \/ ~is_playing
       THEN CbReturn(hist)
       ELSE SetPc("audio", "nsf_lock") /\ UNCHANGED <<hist, cb>>
    /\ UNCHANGED <<current_mode, emu, live_emus, emu_pos, is_playing, track_started,
                   current_track, track_count, seek_request, playback_time,
                   preprocessing, loaded_file, error_msg, viz_emu, nes, midi_state,
                   live_midi, live_sf, audio_mutex, piano_mutex, app_running, ctl,
                   piano, segVars>>

(* std::lock_guard<std::mutex> lock(audio_mutex) *)
CbNsfLock ==
    /\ app_running /\ pc["audio"] = "nsf_lock"
    /\ audio_mutex = "none"
    /\ audio_mutex' = "audio"
    /\ SetPc("audio", "nsf_seek")
    /\ UNCHANGED <<current_mode, emu, live_emus, emu_pos, is_playing, track_started,
                   current_track, track_count, seek_request, playback_time,
                   preprocessing, loaded_file, error_msg, viz_emu, nes, midi_state,
                   live_midi, live_sf, piano_mutex, app_running, ctl, cb,
                   piano, segVars, hist>>

(* What seek_request.exchange(-1) leaves in seek_request *)
SeekAfterLoadOnly(req) == req
SeekAfterExchange(req) == NoSeek

(* gme_seek moves the backend to the target (a track has no position past  *)
(* its end)                                                                *)
SeekTo(pos) == Min(pos, TrackLen)

(* long seek_pos = exchange(-1); if (seek_pos >= 0 && state.emu) gme_seek *)
CbNsfSeek ==
    /\ app_running /\ pc["audio"] = "nsf_seek"
    /\ LET seek_pos == seek_request
           left == SeekAfterExchange(seek_request)
           h0 == [hist EXCEPT !.cb_exchanged = TRUE, !.xch_stored = FALSE,
                              !.pending_stores = 0, !.seek_fresh = FALSE,
                              !.last_target = NoSeek]
           h1 == [h0 EXCEPT !.applied_stale = @ \/ ~hist.seek_fresh,
                            !.applied_wrong = @ \/ seek_pos # hist.last_target,
                            !.applied_late = @ \/ hist.cb_played,
                            !.applied_of_many = hist.pending_stores >= 2,
                            !.cb_applied = TRUE]
       IN  /\ seek_request' = left
           /\ IF seek_pos >= 0 /\ emu # Null
              THEN IF EmuLive(emu)
                   THEN emu_pos' = SeekTo(seek_pos) /\ hist' = h1
                   ELSE emu_pos' = emu_pos /\ hist' = h1
              ELSE emu_pos' = emu_pos /\ hist' = h0
    /\ SetPc("audio", "nsf_play")
    /\ UNCHANGED <<current_mode, emu, live_emus, is_playing, track_started,
                   current_track, track_count, playback_time,
                   preprocessing, loaded_file, error_msg, viz_emu, nes, midi_state,
                   live_midi, live_sf, audio_mutex, piano_mutex, app_running, ctl, cb,
                   piano, segVars>>

(* gme_play advances a track that has not ended by one buffer *)
PlayTo(pos) == IF pos < TrackLen THEN pos + 1 ELSE pos

(* The error path of the callback: silence, return (the lock_guard unlocks). *)
(* The teardown variant is what a callback that gave up on error would do.   *)
NsfPlayErrorTeardown(h) ==
    /\ audio_mutex' = "none"
    /\ CbReturn(h)
    /\ is_playing' = FALSE
    /\ UNCHANGED <<emu, live_emus, emu_pos, track_started, playback_time,
                   app_running, piano_mutex>>
NsfPlayError(h) ==
    /\ audio_mutex' = "none"
    /\ CbReturn(h)
    /\ UNCHANGED <<emu, live_emus, emu_pos, is_playing, track_started, playback_time,
                   app_running, piano_mutex>>

(* gme_play(state.emu, ...); on error silence and return; otherwise the    *)
(* visualizer update and playback_time = gme_tell(state.emu) / 1000        *)
CbNsfPlay ==
    /\ app_running /\ pc["audio"] = "nsf_play"
    /\ LET h0 == [hist EXCEPT !.cb_played = TRUE]
       IN  IF EmuLive(emu)
           THEN \/ NsfPlayError([h0 EXCEPT !.play_failed = TRUE])
                \/ /\ emu_pos' = PlayTo(emu_pos)
                   /\ playback_time' = PlayTo(emu_pos)
                   /\ SetPc("audio", "nsf_piano")
                   /\ hist' = h0
                   /\ UNCHANGED <<emu, live_emus, is_playing, track_started,
                                  audio_mutex, app_running, piano_mutex, cb>>
           ELSE \* a call through a null or deleted handle: a fault, or an
                \* error return
                \/ /\ CbCrash(h0)
                   /\ UNCHANGED <<emu, live_emus, emu_pos, is_playing, track_started,
                                  playback_time, audio_mutex, piano_mutex, cb>>
                \/ NsfPlayError([h0 EXCEPT !.play_failed = TRUE])
    /\ UNCHANGED <<current_mode, current_track, track_count, seek_request,
                   preprocessing, loaded_file, error_msg, viz_emu, nes, midi_state,
                   live_midi, live_sf, ctl, piano, segVars>>

(* updateChannelAmplitudesFromAPU, piano.updateFromAPU (which takes the    *)
(* piano mutex), setVRC6Enabled, the conversion to float; return           *)
CbNsfPiano ==
    /\ app_running /\ pc["audio"] = "nsf_piano"
    /\ piano_mutex = "none"
    /\ piano' = [updateFromAPU(piano, LiveSnapshot(current_track, emu_pos).apu)
                   EXCEPT !.has_vrc6_ = FALSE]
    /\ audio_mutex' = "none"
    /\ CbReturn([hist EXCEPT !.failed_pass = IF @ = "none" THEN "none" ELSE "updated"])
    /\ UNCHANGED <<current_mode, emu, live_emus, emu_pos, is_playing, track_started,
                   current_track, track_count, seek_request, playback_time,
                   preprocessing, loaded_file, error_msg, viz_emu, nes, midi_state,
                   live_midi, live_sf, piano_mutex, app_running, ctl, segVars>>

-----------------------------------------------------------------------------
(* Control context: chiptune operations *)

Files == {1}

(* The history of a seek_request.store(pos) *)
HistStore(h, pos) ==
    IF pos = NoSeek
    THEN [h EXCEPT !.seek_fresh = FALSE, !.pending_stores = 0, !.last_target = NoSeek]
    ELSE [h EXCEPT !.seek_fresh = TRUE, !.last_target = pos,
                   !.pending_stores = Min(@ + 1, 2),
                   !.cb_stored = pc["audio"] # "idle",
                   !.xch_stored = h.cb_exchanged]

(* A control operation returns to the frame loop (its locals end with it), *)
(* or goes on to safe_start_track                                          *)
Return(c, k) ==
    IF ctl[c].after = "start"
    THEN SetPc(c, "sst_check") /\ ctl' = k
    ELSE SetPc(c, "idle") /\ ctl' = [k EXCEPT ![c] = CtlInit]

(* load_nsf_file: is_playing.store(false); track_started.store(false) *)
UiLoadNsf(outcome, count, file) ==
    /\ app_running /\ pc["ui"] = "idle"
    /\ is_playing' = FALSE
    /\ track_started' = FALSE
    /\ ctl' = [ctl EXCEPT !["ui"].outcome = outcome, !["ui"].count = count,
                          !["ui"].file = file, !["ui"].after = "return"]
    /\ SetPc("ui", "load_lock")
    /\ UNCHANGED <<current_mode, emu, live_emus, emu_pos, current_track, track_count,
                   seek_request, playback_time, preprocessing, loaded_file, error_msg,
                   viz_emu, nes, midi_state, live_midi, live_sf, audio_mutex,
                   piano_mutex, app_running, cb, piano, segVars, hist>>

(* The variant takes the lock and resets the seek request but leaves the   *)
(* previous emulator in place                                              *)
UiLoadLockKeepsBackend ==
    /\ app_running /\ pc["ui"] = "load_lock"
    /\ audio_mutex = "none"
    /\ audio_mutex' = "ui"
    /\ seek_request' = NoSeek
    /\ hist' = HistStore(hist, NoSeek)
    /\ SetPc("ui", "load_open")
    /\ UNCHANGED <<current_mode, emu, live_emus, emu_pos, is_playing, track_started,
                   current_track, track_count, playback_time, preprocessing, loaded_file,
                   error_msg, viz_emu, nes, midi_state, live_midi, live_sf, piano_mutex,
                   app_running, ctl, cb, piano, segVars>>

(* The lock; gme_delete(state.emu), state.emu = nullptr; seek_request = -1 *)
UiLoadLock ==
    /\ app_running /\ pc["ui"] = "load_lock"
    /\ audio_mutex = "none"
    /\ audio_mutex' = "ui"
    /\ live_emus' = live_emus \ {emu}
    /\ emu' = Null
    /\ seek_request' = NoSeek
    /\ hist' = [HistStore(hist, NoSeek) EXCEPT !.emu_started = FALSE]
    /\ SetPc("ui", "load_open")
    /\ UNCHANGED <<current_mode, emu_pos, is_playing, track_started, current_track,
                   track_count, playback_time, preprocessing, loaded_file, error_msg,
                   viz_emu, nes, midi_state, live_midi, live_sf, piano_mutex,
                   app_running, ctl, cb, piano, segVars>>

(* read_file_utf8 and gme_open_data; on failure the error message and      *)
(* return; otherwise the new backend is installed, the visualizers reset   *)
(* (piano.reset takes the piano mutex) and the mode set.  The caller then  *)
(* calls postload_preprocess.                                              *)
UiLoadOpen ==
    /\ app_running /\ pc["ui"] = "load_open"
    /\ IF ctl["ui"].outcome = "ok"
       THEN /\ piano_mutex = "none"
            /\ emu' = FreshEmu
            /\ live_emus' = live_emus \cup {FreshEmu}
            /\ emu_pos' = 0
            /\ track_count' = ctl["ui"].count
            /\ current_track' = 0
            /\ error_msg' = FALSE
            /\ loaded_file' = ctl["ui"].file
            /\ viz_emu' = FreshEmu
            /\ piano' = [PianoReset(piano) EXCEPT !.is_midi_mode_ = FALSE]
            /\ playback_time' = 0
            /\ current_mode' = "NSF_PLAYER"
       ELSE /\ error_msg' = TRUE
            /\ UNCHANGED <<emu, live_emus, emu_pos, track_count, current_track,
                           loaded_file, viz_emu, piano, playback_time, current_mode>>
    /\ audio_mutex' = "none"
    /\ SetPc("ui", "pre_check")
    /\ UNCHANGED <<is_playing, track_started, seek_request, preprocessing, nes,
                   midi_state, live_midi, live_sf, piano_mutex, app_running, ctl, cb,
                   segVars, hist>>

(* ---- preprocess_piano_track, run by context c *)

(* if (!state.emu || state.preprocessing.load()) return; *)
PreGuardRejects(c) == emu = Null \/ preprocessing

PreCheck(c) ==
    /\ app_running /\ pc[c] = "pre_check"
    /\ IF PreGuardRejects(c)
       THEN Return(c, ctl)
       ELSE SetPc(c, "pre_set") /\ UNCHANGED ctl
    /\ UNCHANGED <<current_mode, emu, live_emus, emu_pos, is_playing, track_started,
                   current_track, track_count, seek_request, playback_time,
                   preprocessing, loaded_file, error_msg, viz_emu, nes, midi_state,
                   live_midi, live_sf, audio_mutex, piano_mutex, app_running, cb,
                   piano, segVars, hist>>

(* preprocessing.store(true); preprocess_progress.store(0) *)
PreSet(c) ==
    /\ app_running /\ pc[c] = "pre_set"
    /\ preprocessing' = TRUE
    /\ SetPc(c, "pre_open")
    /\ UNCHANGED <<current_mode, emu, live_emus, emu_pos, is_playing, track_started,
                   current_track, track_count, seek_request, playback_time,
                   loaded_file, error_msg, viz_emu, nes, midi_state,
                   live_midi, live_sf, audio_mutex, piano_mutex, app_running, ctl, cb,
                   piano, segVars, hist>>

(* read_file_utf8(state.loaded_file) and gme_open_data into preprocess_emu; *)
(* either can fail: preprocessing.store(false), return                      *)
PreOpen(c, outcome) ==
    /\ app_running /\ pc[c] = "pre_open"
    /\ IF outcome = "ok"
       THEN /\ ctl' = [ctl EXCEPT ![c].pre_emu = FreshEmu,
                                  ![c].pre_track = current_track]
            /\ live_emus' = live_emus \cup {FreshEmu}
            /\ SetPc(c, "pre_lock")
            /\ UNCHANGED preprocessing
       ELSE /\ preprocessing' = FALSE
            /\ Return(c, ctl)
            /\ UNCHANGED live_emus
    /\ UNCHANGED <<current_mode, emu, emu_pos, is_playing, track_started,
                   current_track, track_count, seek_request, playback_time,
                   loaded_file, error_msg, viz_emu, nes, midi_state,
                   live_midi, live_sf, audio_mutex, piano_mutex, app_running, cb,
                   piano, segVars, hist>>

(* preprocessTrack: lock_guard on the piano mutex, then the reset of the   *)
(* timeline and of the per-channel state                                   *)
PreTrackLock(c) ==
    /\ app_running /\ pc[c] = "pre_lock"
    /\ piano_mutex = "none"
    /\ piano_mutex' = c
    /\ piano' = PreprocessTrackReset(piano, FALSE)
    /\ SetPc(c, "pre_run")
    /\ hist' = [hist EXCEPT !.failed_pass = "none"]
    /\ UNCHANGED <<current_mode, emu, live_emus, emu_pos, is_playing, track_started,
                   current_track, track_count, seek_request, playback_time,
                   preprocessing, loaded_file, error_msg, viz_emu, nes, midi_state,
                   live_midi, live_sf, audio_mutex, app_running, ctl, cb,
                   segVars>>

(* What the pass does to the live playback backend and the session: the    *)
(* private instance is the one it starts, plays and reads.  The variant is *)
(* a pass run on state.emu.                                                *)
PassOnLiveBackend(c) ==
    /\ emu_pos' = TrackLen
    /\ UNCHANGED <<emu, is_playing, track_started, seek_request, playback_time,
                   audio_mutex>>
PassOnPrivateBackend(c) ==
    UNCHANGED <<emu, emu_pos, is_playing, track_started, seek_request, playback_time,
                audio_mutex>>

(* gme_track_info, gme_start_track (either can fail: return false), the    *)
(* chunk loop and finalizePreprocessing; the lock_guard unlocks            *)
PreTrackRun(c, outcome, length_ms) ==
    /\ app_running /\ pc[c] = "pre_run"
    /\ piano' = IF outcome = "ok"
                THEN ChunkLoop(piano, ctl[c].pre_track, 1, 0, EstimatedDuration(length_ms))
                ELSE piano
    /\ PassOnPrivateBackend(c)
    /\ piano_mutex' = "none"
    /\ SetPc(c, "pre_delete")
    /\ hist' = [hist EXCEPT !.failed_pass = IF outcome = "ok" THEN "none" ELSE "returned"]
    /\ UNCHANGED <<current_mode, live_emus, current_track, track_count,
                   preprocessing, loaded_file, error_msg, viz_emu, nes, midi_state,
                   live_midi, live_sf, app_running, ctl, cb, segVars>>

(* gme_delete(preprocess_emu); preprocessing.store(false); progress 1.0 *)
PreDelete(c) ==
    /\ app_running /\ pc[c] = "pre_delete"
    /\ live_emus' = live_emus \ {ctl[c].pre_emu}
    /\ preprocessing' = FALSE
    /\ Return(c, [ctl EXCEPT ![c].pre_emu = Null, ![c].pre_track = 0])
    /\ UNCHANGED <<current_mode, emu, emu_pos, is_playing, track_started,
                   current_track, track_count, seek_request, playback_time,
                   loaded_file, error_msg, viz_emu, nes, midi_state,
                   live_midi, live_sf, audio_mutex, piano_mutex, app_running, cb,
                   piano, segVars, hist>>

(* ---- track start *)

(* start_track_with_preprocess(track): the track slider, the previous and  *)
(* next buttons and keys: current_track = track; preprocess; start         *)
UiSelectTrack(track) ==
    /\ app_running /\ pc["ui"] = "idle"
    /\ emu # Null
    /\ current_track' = track
    /\ ctl' = [ctl EXCEPT !["ui"].track = track, !["ui"].after = "start"]
    /\ SetPc("ui", "pre_check")
    /\ UNCHANGED <<current_mode, emu, live_emus, emu_pos, is_playing, track_started,
                   track_count, seek_request, playback_time, preprocessing,
                   loaded_file, error_msg, viz_emu, nes, midi_state, live_midi,
                   live_sf, audio_mutex, piano_mutex, app_running, cb, piano, segVars,
                   hist>>

(* safe_start_track: if (!state.emu) return; is_playing.store(false) *)
SstCheck ==
    /\ app_running /\ pc["ui"] = "sst_check"
    /\ IF emu = Null
       THEN /\ SetPc("ui", "idle")
            /\ ctl' = [ctl EXCEPT !["ui"] = CtlInit]
            /\ UNCHANGED is_playing
       ELSE /\ SetPc("ui", "sst_lock")
            /\ ctl' = [ctl EXCEPT !["ui"].after = "return"]
            /\ is_playing' = FALSE
    /\ UNCHANGED <<current_mode, emu, live_emus, emu_pos, track_started,
                   current_track, track_count, seek_request, playback_time,
                   preprocessing, loaded_file, error_msg, viz_emu, nes, midi_state,
                   live_midi, live_sf, audio_mutex, piano_mutex, app_running, cb,
                   piano, segVars, hist>>

(* Under audio_mutex: seek_request = -1; gme_start_track; track_started    *)
(* and is_playing set                                                      *)
SstLock ==
    /\ app_running /\ pc["ui"] = "sst_lock"
    /\ audio_mutex = "none"
    /\ seek_request' = NoSeek
    /\ hist' = [HistStore(hist, NoSeek) EXCEPT !.emu_started = TRUE]
    /\ emu_pos' = 0
    /\ track_started' = TRUE
    /\ is_playing' = TRUE
    /\ SetPc("ui", "idle")
    /\ ctl' = [ctl EXCEPT !["ui"] = CtlInit]
    /\ UNCHANGED <<current_mode, emu, live_emus, current_track, track_count,
                   playback_time, preprocessing, loaded_file, error_msg, viz_emu,
                   nes, midi_state, live_midi, live_sf, audio_mutex, piano_mutex,
                   app_running, cb, piano, segVars>>

(* ---- player window *)

(* The seek slider: seek_request.store(progress * length) *)
UiSeek(pos) ==
    /\ app_running /\ pc["ui"] = "idle"
    /\ emu # Null
    /\ seek_request' = pos
    /\ hist' = HistStore(hist, pos)
    /\ UNCHANGED <<current_mode, emu, live_emus, emu_pos, is_playing, track_started,
                   current_track, track_count, playback_time, preprocessing,
                   loaded_file, error_msg, viz_emu, nes, midi_state, live_midi,
                   live_sf, audio_mutex, piano_mutex, app_running, pc, ctl, cb,
                   piano, segVars>>

(* gme_track_ended on the live backend *)
TrackEnded == emu_pos >= TrackLen

(* if (is_playing && gme_track_ended(emu)): next track, or stop *)
UiAutoAdvance ==
    /\ app_running /\ pc["ui"] = "idle"
    /\ emu # Null
    /\ is_playing /\ TrackEnded
    /\ IF current_track < track_count - 1
       THEN /\ current_track' = current_track + 1
            /\ ctl' = [ctl EXCEPT !["ui"].track = current_track + 1,
                                  !["ui"].after = "start",
                                  !["ui"].advanced = TRUE]
            /\ SetPc("ui", "pre_check")
            /\ UNCHANGED is_playing
       ELSE /\ is_playing' = FALSE
            /\ UNCHANGED <<current_track, ctl, pc>>
    /\ UNCHANGED <<current_mode, emu, live_emus, emu_pos, track_started,
                   track_count, seek_request, playback_time, preprocessing,
                   loaded_file, error_msg, viz_emu, nes, midi_state, live_midi,
                   live_sf, audio_mutex, piano_mutex, app_running, cb, piano, segVars,
                   hist>>

(* The play/pause button and the space key *)
UiPlayPause ==
    /\ app_running /\ pc["ui"] = "idle"
    /\ emu # Null
    /\ IF ~is_playing
       THEN IF ~track_started
            THEN /\ ctl' = [ctl EXCEPT !["ui"].track = current_track,
                                       !["ui"].after = "return"]
                 /\ SetPc("ui", "sst_check")
                 /\ UNCHANGED is_playing
            ELSE /\ is_playing' = TRUE
                 /\ UNCHANGED <<ctl, pc>>
       ELSE /\ is_playing' = FALSE
            /\ UNCHANGED <<ctl, pc>>
    /\ UNCHANGED <<current_mode, emu, live_emus, emu_pos, track_started,
                   current_track, track_count, seek_request, playback_time,
                   preprocessing, loaded_file, error_msg, viz_emu, nes, midi_state,
                   live_midi, live_sf, audio_mutex, piano_mutex, app_running, cb,
                   piano, segVars, hist>>

(* The stop button: is_playing.store(false); seek_request.store(0) *)
UiStop ==
    /\ app_running /\ pc["ui"] = "idle"
    /\ emu # Null
    /\ is_playing' = FALSE
    /\ seek_request' = 0
    /\ hist' = HistStore(hist, 0)
    /\ UNCHANGED <<current_mode, emu, live_emus, emu_pos, track_started,
                   current_track, track_count, playback_time, preprocessing,
                   loaded_file, error_msg, viz_emu, nes, midi_state, live_midi,
                   live_sf, audio_mutex, piano_mutex, app_running, pc, ctl, cb,
                   piano, segVars>>

-----------------------------------------------------------------------------
(* Control context: MIDI player, emulator, shutdown *)

Ev(time, type, ch, key, vel) ==
    [time |-> time, type |-> type, channel |-> ch, key |-> key, velocity |-> vel]

(* The event lists tml_load_memory yields for the MIDI files of the model  *)
MidiFiles == {1, 2}
MidiFileEvents(f) ==
    IF f = 1
    THEN <<Ev(0, "NOTE_ON", 0, 60, 100), Ev(50, "NOTE_ON", 0, 60, 0)>>
    ELSE <<Ev(0, "PROGRAM_CHANGE", 1, 0, 0), Ev(0, "NOTE_ON", 1, 64, 90),
           Ev(40, "NOTE_OFF", 1, 64, 0)>>

FreshMidi == CHOOSE h \in Handles : h \notin DOMAIN live_midi
FreshSf == CHOOSE h \in Handles : h \notin live_sf

HeapFree(heap, id) == [i \in DOMAIN heap \ {id} |-> heap[i]]
HeapPut(heap, id, val) == [i \in DOMAIN heap \cup {id} |-> IF i = id THEN val ELSE heap[i]]

ListHead(id) == IF id = Null THEN NullNode ELSE [list |-> id, idx |-> 1]

(* PianoVisualizer::midiAllNotesOff *)
midiAllNotesOff(p) ==
    [p EXCEPT !.midi_note_states_ = [k \in DOMAIN @ |-> [@[k] EXCEPT !.active = FALSE]],
              !.current_notes_ = [c \in Channels |->
                                     IF c < PIANO_NUM_CHANNELS_MIDI
                                     THEN [@[c] EXCEPT !.active = FALSE] ELSE @[c]]]

(* load_soundfont: tsf_close(soundfont); soundfont = nullptr *)
UiLoadSoundfont(ok) ==
    /\ app_running /\ pc["ui"] = "idle"
    /\ live_sf' = live_sf \ {midi_state.soundfont}
    /\ midi_state' = [midi_state EXCEPT !.soundfont = Null]
    /\ ctl' = [ctl EXCEPT !["ui"].outcome = IF ok THEN "ok" ELSE "read_fail"]
    /\ SetPc("ui", "sf_open")
    /\ UNCHANGED <<current_mode, emu, live_emus, emu_pos, is_playing, track_started,
                   current_track, track_count, seek_request, playback_time,
                   preprocessing, loaded_file, error_msg, viz_emu, nes, live_midi,
                   audio_mutex, piano_mutex, app_running, cb, piano, segVars,
                   hist>>

(* The rest of load_soundfont: read_file_utf8 and tsf_load_memory; on      *)
(* failure return false                                                    *)
UiLoadSoundfontOpen ==
    /\ app_running /\ pc["ui"] = "sf_open"
    /\ IF ctl["ui"].outcome = "ok"
       THEN /\ live_sf' = live_sf \cup {FreshSf}
            /\ midi_state' = [midi_state EXCEPT !.soundfont = FreshSf]
       ELSE UNCHANGED <<live_sf, midi_state>>
    /\ SetPc("ui", "idle")
    /\ ctl' = [ctl EXCEPT !["ui"] = CtlInit]
    /\ UNCHANGED <<current_mode, emu, live_emus, emu_pos, is_playing, track_started,
                   current_track, track_count, seek_request, playback_time,
                   preprocessing, loaded_file, error_msg, viz_emu, nes, live_midi,
                   audio_mutex, piano_mutex, app_running, cb, piano, segVars,
                   hist>>

(* load_midi_file: midi_playing = false; tml_free(midi_file); midi_file =  *)
(* nullptr (midi_current is left as it is)                                 *)
UiLoadMidi(ok, file) ==
    /\ app_running /\ pc["ui"] = "idle"
    /\ midi_state' = [midi_state EXCEPT !.midi_playing = FALSE, !.midi_file = Null]
    /\ live_midi' = HeapFree(live_midi, midi_state.midi_file)
    /\ ctl' = [ctl EXCEPT !["ui"].outcome = IF ok THEN "ok" ELSE "read_fail",
                          !["ui"].file = file, !["ui"].after = "return"]
    /\ SetPc("ui", "midi_open")
    /\ UNCHANGED <<current_mode, emu, live_emus, emu_pos, is_playing, track_started,
                   current_track, track_count, seek_request, playback_time,
                   preprocessing, loaded_file, error_msg, viz_emu, nes, live_sf,
                   audio_mutex, piano_mutex, app_running, cb, piano, segVars, hist>>

(* The rest of load_midi_file: on failure return false; otherwise the new  *)
(* list is installed, the cursor and time reset, the mode set and the      *)
(* piano roll preprocessed (preprocessMidi takes the piano mutex)          *)
UiLoadMidiOpen ==
    /\ app_running /\ pc["ui"] = "midi_open"
    /\ IF ctl["ui"].outcome = "ok"
       THEN /\ piano_mutex = "none"
            /\ live_midi' = HeapPut(live_midi, FreshMidi, MidiFileEvents(ctl["ui"].file))
            /\ midi_state' = [midi_state EXCEPT !.midi_file = FreshMidi,
                                                !.midi_current = ListHead(FreshMidi),
                                                !.midi_time = 0]
            /\ current_mode' = "MIDI_PLAYER"
            /\ piano' = preprocessMidi(piano, TRUE, MidiFileEvents(ctl["ui"].file))
       ELSE UNCHANGED <<live_midi, midi_state, current_mode, piano>>
    /\ SetPc("ui", "idle")
    /\ ctl' = [ctl EXCEPT !["ui"] = CtlInit]
    /\ hist' = [hist EXCEPT !.midi_ended = FALSE]
    /\ UNCHANGED <<emu, live_emus, emu_pos, is_playing, track_started,
                   current_track, track_count, seek_request, playback_time,
                   preprocessing, loaded_file, error_msg, viz_emu, nes, live_sf,
                   audio_mutex, piano_mutex, app_running, cb, segVars>>

(* The MIDI play/pause button (shown while a MIDI file is loaded) *)
UiMidiPlayPause ==
    /\ app_running /\ pc["ui"] = "idle"
    /\ midi_state.midi_file # Null
    /\ midi_state.soundfont # Null
    /\ midi_state.midi_playing \/ midi_state.midi_time < MaxMidiPeriods * FramesMs
    /\ midi_state' = [midi_state EXCEPT !.midi_playing = ~@]
    /\ hist' = [hist EXCEPT !.midi_ended = FALSE]
    /\ UNCHANGED <<current_mode, emu, live_emus, emu_pos, is_playing, track_started,
                   current_track, track_count, seek_request, playback_time,
                   preprocessing, loaded_file, error_msg, viz_emu, nes, live_midi,
                   live_sf, audio_mutex, piano_mutex, app_running, pc, ctl, cb, piano,
                   segVars>>

(* reset_midi_playback *)
ResetMidiPlayback(m) ==
    [m EXCEPT !.midi_current = ListHead(m.midi_file), !.midi_time = 0]

(* The MIDI stop button: midi_playing = false; reset_midi_playback() *)
UiMidiStop ==
    /\ app_running /\ pc["ui"] = "idle"
    /\ midi_state.midi_file # Null
    /\ piano_mutex = "none"
    /\ midi_state' = ResetMidiPlayback([midi_state EXCEPT !.midi_playing = FALSE])
    /\ piano' = midiAllNotesOff(piano)
    /\ hist' = [hist EXCEPT !.midi_ended = FALSE]
    /\ UNCHANGED <<current_mode, emu, live_emus, emu_pos, is_playing, track_started,
                   current_track, track_count, seek_request, playback_time,
                   preprocessing, loaded_file, error_msg, viz_emu, nes, live_midi,
                   live_sf, audio_mutex, piano_mutex, app_running, pc, ctl, cb,
                   segVars>>

(* The cursor after the fast-forward of the MIDI seek slider: the first    *)
(* message whose time is not below the target                              *)
RECURSIVE FastForward(_, _, _)
FastForward(list, i, target) ==
    IF i > Len(list) THEN 0
    ELSE IF list[i].time < target THEN FastForward(list, i + 1, target) ELSE i

(* The MIDI seek slider: reset_midi_playback, midi_time = target, and the  *)
(* fast-forward of the cursor                                              *)
UiMidiSeek(target) ==
    /\ app_running /\ pc["ui"] = "idle"
    /\ midi_state.midi_file # Null
    /\ piano_mutex = "none"
    /\ LET i == FastForward(live_midi[midi_state.midi_file], 1, target)
       IN  midi_state' = [midi_state EXCEPT
                              !.midi_time = target,
                              !.midi_current = IF i = 0 THEN NullNode
                                               ELSE [list |-> midi_state.midi_file,
                                                     idx |-> i]]
    /\ piano' = midiAllNotesOff(piano)
    /\ hist' = [hist EXCEPT !.midi_ended = FALSE]
    /\ UNCHANGED <<current_mode, emu, live_emus, emu_pos, is_playing, track_started,
                   current_track, track_count, seek_request, playback_time,
                   preprocessing, loaded_file, error_msg, viz_emu, nes, live_midi,
                   live_sf, audio_mutex, piano_mutex, app_running, pc, ctl, cb,
                   segVars>>

(* load_nes_rom: on success the mode is set and the visualizers reset *)
UiLoadRom(ok) ==
    /\ app_running /\ pc["ui"] = "idle"
    /\ IF ok
       THEN /\ piano_mutex = "none"
            /\ nes' = [loaded |-> TRUE, running |-> FALSE]
            /\ current_mode' = "NES_EMULATOR"
            /\ piano' = PianoReset(piano)
            /\ UNCHANGED error_msg
       ELSE /\ error_msg' = TRUE
            /\ UNCHANGED <<nes, current_mode, piano>>
    /\ UNCHANGED <<emu, live_emus, emu_pos, is_playing, track_started,
                   current_track, track_count, seek_request, playback_time,
                   preprocessing, loaded_file, viz_emu, midi_state, live_midi,
                   live_sf, audio_mutex, piano_mutex, app_running, pc, ctl, cb,
                   segVars, hist>>

(* "Close ROM": pause; nes_rom_loaded = false; current_mode = NSF_PLAYER *)
UiCloseRom ==
    /\ app_running /\ pc["ui"] = "idle"
    /\ nes.loaded
    /\ nes' = [loaded |-> FALSE, running |-> FALSE]
    /\ current_mode' = "NSF_PLAYER"
    /\ UNCHANGED <<emu, live_emus, emu_pos, is_playing, track_started,
                   current_track, track_count, seek_request, playback_time,
                   preprocessing, loaded_file, error_msg, viz_emu, midi_state,
                   live_midi, live_sf, audio_mutex, piano_mutex, app_running, pc, ctl,
                   cb, piano, segVars, hist>>

(* The emulator's pause/resume button *)
UiEmuPauseResume ==
    /\ app_running /\ pc["ui"] = "idle"
    /\ nes.loaded
    /\ nes' = [nes EXCEPT !.running = ~@]
    /\ UNCHANGED <<current_mode, emu, live_emus, emu_pos, is_playing, track_started,
                   current_track, track_count, seek_request, playback_time,
                   preprocessing, loaded_file, error_msg, viz_emu, midi_state,
                   live_midi, live_sf, audio_mutex, piano_mutex, app_running, pc, ctl,
                   cb, piano, segVars, hist>>

(* cleanup: is_playing.store(false); midi_playing = false *)
UiCleanup ==
    /\ app_running /\ pc["ui"] = "idle"
    /\ is_playing' = FALSE
    /\ midi_state' = [midi_state EXCEPT !.midi_playing = FALSE]
    /\ SetPc("ui", "cleanup_lock")
    /\ UNCHANGED <<current_mode, emu, live_emus, emu_pos, track_started,
                   current_track, track_count, seek_request, playback_time,
                   preprocessing, loaded_file, error_msg, viz_emu, nes, live_midi,
                   live_sf, audio_mutex, piano_mutex, app_running, ctl, cb, piano,
                   segVars, hist>>

(* Under audio_mutex: gme_delete(state.emu); state.emu = nullptr *)
UiCleanupLock ==
    /\ app_running /\ pc["ui"] = "cleanup_lock"
    /\ audio_mutex = "none"
    /\ live_emus' = live_emus \ {emu}
    /\ emu' = Null
    /\ SetPc("ui", "cleanup_free")
    /\ UNCHANGED <<current_mode, emu_pos, is_playing, track_started,
                   current_track, track_count, seek_request, playback_time,
                   preprocessing, loaded_file, error_msg, viz_emu, nes, midi_state,
                   live_midi, live_sf, audio_mutex, piano_mutex, app_running, ctl, cb,
                   piano, segVars, hist>>

(* tml_free(midi_file); tsf_close(soundfont) *)
UiCleanupFree ==
    /\ app_running /\ pc["ui"] = "cleanup_free"
    /\ live_midi' = HeapFree(live_midi, midi_state.midi_file)
    /\ live_sf' = live_sf \ {midi_state.soundfont}
    /\ midi_state' = [midi_state EXCEPT !.midi_file = Null, !.soundfont = Null]
    /\ SetPc("ui", "shutdown")
    /\ UNCHANGED <<current_mode, emu, live_emus, emu_pos, is_playing, track_started,
                   current_track, track_count, seek_request, playback_time,
                   preprocessing, loaded_file, error_msg, viz_emu, nes,
                   audio_mutex, piano_mutex, app_running, ctl, cb, piano,
                   segVars, hist>>

(* saudio_shutdown: returns once the audio thread has ended, which it does *)
(* between two invocations of the callback                                 *)
UiShutdown ==
    /\ app_running /\ pc["ui"] = "shutdown"
    /\ pc["audio"] = "idle"
    /\ app_running' = FALSE
    /\ SetPc("ui", "exited")
    /\ UNCHANGED <<current_mode, emu, live_emus, emu_pos, is_playing, track_started,
                   current_track, track_count, seek_request, playback_time,
                   preprocessing, loaded_file, error_msg, viz_emu, nes, midi_state,
                   live_midi, live_sf, audio_mutex, piano_mutex, ctl, cb, piano,
                   segVars, hist>>

-----------------------------------------------------------------------------
(* The session: the audio callback against the control context *)

LoadOutcomes == {"ok", "read_fail", "open_fail"}
PassOutcomes == {"ok", "info_fail", "start_fail"}
TrackLengthMs == 40

CallbackNsf ==
    \/ CbDispatch
    \/ CbNsfCheck
    \/ CbNsfLock
    \/ CbNsfSeek
    \/ CbNsfPlay
    \/ CbNsfPiano

CallbackModes ==
    \/ CbMidiRender
    \/ CbMidiLoop
    \/ CbMidiEnd
    \/ CbNesRead
    \/ CbNesPiano

Preprocess(c) ==
    \/ PreCheck(c)
    \/ PreSet(c)
    \/ \E o \in LoadOutcomes : PreOpen(c, o)
    \/ PreTrackLock(c)
    \/ \E o \in PassOutcomes : PreTrackRun(c, o, TrackLengthMs)
    \/ PreDelete(c)

LoadNsf ==
    \/ \E o \in LoadOutcomes, n \in 1..MaxTracks, f \in Files : UiLoadNsf(o, n, f)
    \/ UiLoadLock
    \/ UiLoadOpen
    \/ SstCheck
    \/ SstLock

PlayerWindow ==
    \/ \E t \in 0..(track_count - 1) : UiSelectTrack(t)
    \/ \E pos \in 0..TrackLen : UiSeek(pos)
    \/ UiAutoAdvance
    \/ UiPlayPause
    \/ UiStop

MidiWindow ==
    \/ \E ok \in BOOLEAN : UiLoadSoundfont(ok)
    \/ UiLoadSoundfontOpen
    \/ \E ok \in BOOLEAN, f \in MidiFiles : UiLoadMidi(ok, f)
    \/ UiLoadMidiOpen
    \/ UiMidiPlayPause
    \/ UiMidiStop
    \/ \E target \in {0, FramesMs} : UiMidiSeek(target)

EmulatorWindow ==
    \/ \E ok \in BOOLEAN : UiLoadRom(ok)
    \/ UiCloseRom
    \/ UiEmuPauseResume

Cleanup ==
    \/ UiCleanup
    \/ UiCleanupLock
    \/ UiCleanupFree
    \/ UiShutdown

(* The chiptune session: the callback's chiptune path against the loader,  *)
(* the player window, the preprocessing pass and shutdown                  *)
Next ==
    \/ CallbackNsf
    \/ LoadNsf
    \/ Preprocess("ui")
    \/ PlayerWindow
    \/ Cleanup

Spec == Init /\ [][Next]_vars

(* The three modes: the whole callback against the loaders of the three    *)
(* backends (with files that load) and their play/pause controls           *)
NextModes ==
    \/ CallbackNsf
    \/ CallbackModes
    \/ UiLoadNsf("ok", 1, 1)
    \/ UiLoadLock
    \/ UiLoadOpen
    \/ SstCheck
    \/ SstLock
    \/ Preprocess("ui")
    \/ UiPlayPause
    \/ UiLoadSoundfont(TRUE)
    \/ UiLoadSoundfontOpen
    \/ UiLoadMidi(TRUE, 1)
    \/ UiLoadMidiOpen
    \/ UiMidiPlayPause
    \/ EmulatorWindow

SpecModes == Init /\ [][NextModes]_vars

(* The MIDI player: the callback's MIDI path against the MIDI window and   *)
(* shutdown                                                                *)
NextMidi ==
    \/ CbDispatch
    \/ CbMidiRender
    \/ CbMidiLoop
    \/ CbMidiEnd
    \/ CbNsfCheck
    \/ MidiWindow
    \/ Cleanup

SpecMidi == Init /\ [][NextMidi]_vars

(* The MIDI player with every control operation run between two callbacks: *)
(* a callback begins only while no control operation is under way, and a   *)
(* control operation steps only while no callback is                       *)
NextMidiQuiet ==
    \/ pc["ui"] = "idle" /\ (CbDispatch \/ CbMidiRender \/ CbMidiLoop \/ CbMidiEnd
                                \/ CbNsfCheck)
    \/ pc["audio"] = "idle" /\ MidiWindow

SpecMidiQuiet == Init /\ [][NextMidiQuiet]_vars

-----------------------------------------------------------------------------
(* Two requesters of preprocess_piano_track *)

(* A call of preprocess_piano_track() by context c (postload_preprocess,   *)
(* start_track_with_preprocess)                                            *)
RequestPreprocess(c) ==
    /\ app_running /\ pc[c] = "idle"
    /\ emu # Null
    /\ ctl' = [ctl EXCEPT ![c].after = "return"]
    /\ SetPc(c, "pre_check")
    /\ UNCHANGED <<current_mode, emu, live_emus, emu_pos, is_playing, track_started,
                   current_track, track_count, seek_request, playback_time,
                   preprocessing, loaded_file, error_msg, viz_emu, nes, midi_state,
                   live_midi, live_sf, audio_mutex, piano_mutex, app_running, cb,
                   piano, segVars, hist>>

NextPre ==
    \/ \E n \in 1..MaxTracks : UiLoadNsf("ok", n, 1)
    \/ UiLoadLock
    \/ UiLoadOpen
    \/ \E c \in Requesters : RequestPreprocess(c)
    \/ \E c \in Requesters : Preprocess(c)

SpecPre == Init /\ [][NextPre]_vars

-----------------------------------------------------------------------------
(* Note segmentation on arbitrary inputs: snapshot sequences with          *)
(* non-decreasing times and event lists with non-decreasing timestamps     *)

Vrc6Tone(period, volume) == [period |-> period, volume |-> volume, enabled |-> TRUE]

(* Oscillator snapshots fed to processApuFrame and processVrc6Frame *)
SegSnapshots ==
    { [apu |-> ApuSilent, vrc6 |-> Vrc6Silent],
      [apu |-> ApuRegs(Tone(253, 8), Silent, Silent, Silent, Silent), vrc6 |-> Vrc6Silent],
      [apu |-> ApuRegs(Tone(126, 0 - 8), Silent, Silent, Silent, Silent),
       vrc6 |-> Vrc6Regs(Vrc6Tone(253, 8), Vrc6Off, Vrc6Off)],
      [apu |-> ApuRegs(Tone(7, 8), Tone(253, 4), Tone(100, 0), Tone(5, 3), Silent),
       vrc6 |-> Vrc6Regs(Vrc6Off, Vrc6Off, Vrc6Tone(126, 20))],
      [apu |-> ApuRegs(Silent, Tone(253, 8), Tone(100, 0), Silent, Tone(0, 0)),
       vrc6 |-> Vrc6Silent] }

(* Time steps between two snapshots, and between two events *)
SegSteps == {0, 5, TimePerChunk}
MidiSteps == {0, 3, 500}

(* Events an event list is made of *)
SegEvents(t) ==
    {Ev(t, "NOTE_ON", 0, k, v) : k \in MidiKeys, v \in {0, 100}}
        \cup {Ev(t, "NOTE_OFF", 0, k, 0) : k \in MidiKeys}
        \cup {Ev(t, "CONTROL_CHANGE", 0, 0, 0)}

LastTime(list) == IF list = <<>> THEN 0 ELSE list[Len(list)].time

(* The head of preprocessTrack: the reset of the timeline *)
SegBegin(vrc6) ==
    /\ seg_phase = "idle"
    /\ piano' = PreprocessTrackReset(piano, vrc6)
    /\ seg_phase' = "track"
    /\ UNCHANGED <<sessionVars, seg_time, seg_chunks, midi_list, pass_clock, apu_probe, api,
                   locks>>

(* One snapshot at the current time; the clock then moves on by dt *)
SegChunk(snap, dt) ==
    /\ seg_phase = "track"
    /\ seg_chunks < MaxChunks
    /\ piano' = ProcessChunk(piano, snap, seg_time)
    /\ seg_time' = seg_time + dt
    /\ seg_chunks' = seg_chunks + 1
    /\ UNCHANGED <<sessionVars, seg_phase, midi_list, pass_clock, apu_probe, api,
                   locks>>

SegFinalize ==
    /\ seg_phase = "track"
    /\ piano' = finalizePreprocessing(piano, seg_time)
    /\ seg_phase' = "done"
    /\ UNCHANGED <<sessionVars, seg_time, seg_chunks, midi_list, pass_clock, apu_probe, api,
                   locks>>

(* One more event at the end of the list to be preprocessed *)
MidiAppend(dt) ==
    /\ seg_phase \in {"idle", "midi"}
    /\ Len(midi_list) < MaxMidiEvents
    /\ \E ev \in SegEvents(LastTime(midi_list) + dt) : midi_list' = Append(midi_list, ev)
    /\ seg_phase' = "midi"
    /\ UNCHANGED <<sessionVars, piano, seg_time, seg_chunks, pass_clock, apu_probe, api,
                   locks>>

SegPreprocessMidi ==
    /\ seg_phase \in {"idle", "midi"}
    /\ piano' = preprocessMidi(piano, TRUE, midi_list)
    /\ seg_phase' = "done"
    /\ UNCHANGED <<sessionVars, seg_time, seg_chunks, midi_list, pass_clock, apu_probe, api,
                   locks>>

NextSeg ==
    \/ \E vrc6 \in BOOLEAN : SegBegin(vrc6)
    \/ \E snap \in SegSnapshots, dt \in SegSteps : SegChunk(snap, dt)
    \/ SegFinalize
    \/ \E dt \in MidiSteps : MidiAppend(dt)
    \/ SegPreprocessMidi

SpecSeg == Init /\ [][NextSeg]_vars

(* The chunk loop alone, on the snapshots in which a channel keeps its     *)
(* pitch, changes it, changes its velocity or falls silent                 *)
RunSnapshots == {snap \in SegSnapshots : snap.apu[0] # Tone(253, 8)}

NextRun ==
    \/ \E vrc6 \in BOOLEAN : SegBegin(vrc6)
    \/ \E snap \in RunSnapshots, dt \in {5, TimePerChunk} : SegChunk(snap, dt)
    \/ SegFinalize

SpecRun == Init /\ [][NextRun]_vars

-----------------------------------------------------------------------------
(* The clock of the chunk loop of preprocessTrack: current_time is a float *)
(* advanced by time_per_chunk once per chunk, each sum rounded to a float  *)

SampleRate == 44100
ChunkSamples == 1024
(* time_per_chunk = static_cast<float>(chunk_samples) / sample_rate: the   *)
(* float nearest to 1024 / 44100 is 12466118 * 2^-29                       *)
TimePerChunkMantissa == 12466118
TimePerChunkF32 == [m |-> TimePerChunkMantissa, e |-> 0 - 6]

RECURSIVE Exp2(_)
Exp2(n) == IF n = 0 THEN 1 ELSE 2 * Exp2(n - 1)

(* The variant drops the fraction (rounding toward zero) *)
RoundTowardZero(q, r, d) == q

(* q + r / d rounded to the nearest integer, a tie to the even one *)
RoundNearestEven(q, r, d) ==
    IF 2 * r > d \/ (2 * r = d /\ q % 2 = 1) THEN q + 1 ELSE q

F32Normal(m, e) == IF m = Exp2(24) THEN [m |-> Exp2(23), e |-> e + 1] ELSE [m |-> m, e |-> e]

(* current_time += time_per_chunk for current_time >= time_per_chunk or 0: *)
(* the exact sum in units of the ulp of current_time is q + r / d          *)
F32AddChunk(t) ==
    IF t.m = 0 THEN TimePerChunkF32
    ELSE LET d == Exp2(t.e - TimePerChunkF32.e)
             q == t.m + (TimePerChunkF32.m \div d)
             r == TimePerChunkF32.m % d
         IN  IF q < Exp2(24)
             THEN F32Normal(RoundNearestEven(q, r, d), t.e)
             ELSE F32Normal(RoundNearestEven(q \div 2, (q % 2) * d + r, 2 * d), t.e + 1)

(* The whole seconds in t *)
F32Floor(t) == IF t.m = 0 \/ t.e < 0 THEN 0 ELSE t.m \div Exp2(23 - t.e)

(* current_time < estimated_duration for a horizon of whole seconds *)
ClockBelowHorizon(c) == F32Floor(c.current_time) < c.estimated_duration

(* info.length of the tracks the clock is run for: whole seconds, none     *)
(* declared (0), and longer than the cap                                   *)
ClockLengths == {0, 2000, 60000, 120000, 400000}

(* preprocessTrack up to the chunk loop for a track whose info.length is   *)
(* length_ms                                                               *)
ClockBegin(length_ms) ==
    /\ pass_clock.phase = "idle"
    /\ pass_clock' = [phase |-> "loop", current_time |-> F32Zero,
                      estimated_duration |-> EstimatedDuration(length_ms) \div 1000,
                      chunks_processed |-> 0]
    /\ UNCHANGED <<sessionVars, piano, seg_phase, seg_time, seg_chunks, midi_list, apu_probe, api,
                   locks>>

(* One iteration: the loop test passed (the backend has not ended) *)
ClockChunk ==
    /\ pass_clock.phase = "loop"
    /\ ClockBelowHorizon(pass_clock)
    /\ pass_clock' = [pass_clock EXCEPT !.current_time = F32AddChunk(@),
                                        !.chunks_processed = @ + 1]
    /\ UNCHANGED <<sessionVars, piano, seg_phase, seg_time, seg_chunks, midi_list, apu_probe, api,
                   locks>>

(* The loop test failed: the clock reached the horizon, or the backend     *)
(* reports gme_track_ended (track_ended); finalizePreprocessing(current_time) *)
ClockFinish(track_ended) ==
    /\ pass_clock.phase = "loop"
    /\ ~ClockBelowHorizon(pass_clock) \/ track_ended
    /\ pass_clock' = [pass_clock EXCEPT !.phase = "done"]
    /\ UNCHANGED <<sessionVars, piano, seg_phase, seg_time, seg_chunks, midi_list, apu_probe, api,
                   locks>>

NextClock ==
    \/ \E length_ms \in ClockLengths : ClockBegin(length_ms)
    \/ ClockChunk
    \/ \E track_ended \in BOOLEAN : ClockFinish(track_ended)

SpecClock == Init /\ [][NextClock]_vars

(* ceil(H / (chunk_samples / sample_rate)) for a horizon of H seconds *)
CeilChunks(H) == (H * SampleRate + ChunkSamples - 1) \div ChunkSamples

(* current_time - H < chunk_samples / sample_rate, for current_time >= H >= 2 *)
ExcessBelowChunkPeriod(t, H) ==
    LET ulps == Exp2(23 - t.e)
    IN  (t.m - H * ulps) * (SampleRate \div 4) < (ChunkSamples \div 4) * ulps

-----------------------------------------------------------------------------
(* Pitch inference on one channel: the body of the loop of processApuFrame *)
(* for channel ch of a frame, on a timeline that has just been reset       *)

(* Registers the oscillators are given: periods of the 11-bit timers       *)
(* around the gate at 8, lengths, and amplitudes of either sign; and every *)
(* period of a pulse channel at one amplitude                              *)
ProbeInputs ==
    ((0 .. (PIANO_NUM_CHANNELS_BASE - 1)) \X {0, 7, 8, 15, 100, 253, 2047}
        \X {0 - 1, 0, 1} \X ((0 - 15) .. 15))
        \cup ({0} \X (0 .. 2047) \X {1} \X {8})

(* A probe of processApuFrame *)
ApuProbe(ch, period, length, amp) ==
    /\ apu_probe = ProbeIdle
    /\ LET inf == ApuInfer(ch, [period |-> period, length |-> length, amp |-> amp])
           after == SegmentStep(PreprocessTrackReset(piano, FALSE), ch,
                                inf.midi_note, inf.velocity, 0)
       IN  apu_probe' = [ch |-> ch, period |-> period, length |-> length, amp |-> amp,
                         midi_note |-> inf.midi_note, velocity |-> inf.velocity,
                         sounding |-> after.preprocess_prev_notes_[ch] >= 0]
    /\ UNCHANGED <<sessionVars, piano, seg_phase, seg_time, seg_chunks, midi_list,
                   pass_clock, api,
                   locks>>

NextInfer == \E i \in ProbeInputs : ApuProbe(i[1], i[2], i[3], i[4])

SpecInfer == Init /\ [][NextInfer]_vars

-----------------------------------------------------------------------------
(* The PianoVisualizer object under calls of its public methods in any     *)
(* order; every method runs under mutex_, so a call is one step            *)

(* Bound: notes the list holds before midiNoteOff is no longer called *)
MaxApiNotes == 3

(* Arguments of the MIDI note calls and of the live update *)
ApiTimes == {0, 50}
ApiKeys == {60}
ApiPositions == {1, 3}

(* midiNoteOn(channel, note, velocity, current_time) *)
midiNoteOn(p, ch, key, velocity, current_time) ==
    [p EXCEPT !.current_notes_[ch] = [midi_note |-> key, velocity |-> velocity,
                                      active |-> TRUE],
              !.midi_note_states_[<<ch, key>>] =
                  [active |-> TRUE, start_time |-> current_time, velocity |-> velocity]]

(* midiNoteOff(channel, note, current_time) *)
midiNoteOff(p, ch, key, current_time) ==
    LET st == p.midi_note_states_[<<ch, key>>]
        closed == IF st.active
                  THEN [p EXCEPT !.preprocessed_notes_ =
                                     PushIf(@, Note(ch, key, st.velocity, st.start_time,
                                                    current_time), MinNoteMs),
                                 !.midi_note_states_[<<ch, key>>].active = FALSE]
                  ELSE p
    IN  IF closed.current_notes_[ch].midi_note = key
        THEN [closed EXCEPT !.current_notes_[ch].active = FALSE]
        ELSE closed

(* What a call of preprocessTrack finds *)
PianoDirty(p) ==
    \/ p.preprocessed_notes_ # <<>>
    \/ p.is_midi_mode_
    \/ \E c \in Channels : p.current_notes_[c].active
    \/ \E k \in DOMAIN p.midi_note_states_ : p.midi_note_states_[k].active

ApiCall(op) ==
    /\ api' = [api EXCEPT !.op = op]
    /\ UNCHANGED <<sessionVars, seg_phase, seg_time, seg_chunks, midi_list, pass_clock,
                   apu_probe, locks>>

(* preprocessTrack(emu, track, ...) on a private backend playing track t *)
ApiPreprocessTrack(t, outcome) ==
    /\ piano' = IF outcome = "ok"
                THEN ChunkLoop(PreprocessTrackReset(piano, FALSE), t, 1, 0,
                               EstimatedDuration(TrackLengthMs))
                ELSE PreprocessTrackReset(piano, FALSE)
    /\ api' = [op |-> IF outcome = "ok" THEN "preprocessTrack" ELSE "preprocessTrackFailed",
               track |-> t, dirty |-> PianoDirty(piano)]
    /\ UNCHANGED <<sessionVars, seg_phase, seg_time, seg_chunks, midi_list, pass_clock,
                   apu_probe, locks>>

ApiPreprocessMidi(has_list, f) ==
    /\ piano' = preprocessMidi(piano, has_list, MidiFileEvents(f))
    /\ ApiCall("preprocessMidi")

ApiUpdateFromAPU(pos) ==
    /\ piano' = updateFromAPU(piano, LiveSnapshot(0, pos).apu)
    /\ ApiCall("updateFromAPU")

ApiReset ==
    /\ piano' = PianoReset(piano)
    /\ ApiCall("reset")

ApiSetMidiMode(enabled) ==
    /\ piano' = [piano EXCEPT !.is_midi_mode_ = enabled]
    /\ ApiCall("setMidiMode")

ApiMidiNoteOn(key, current_time) ==
    /\ piano' = midiNoteOn(piano, 0, key, FixedVelocity, current_time)
    /\ ApiCall("midiNoteOn")

ApiMidiNoteOff(key, current_time) ==
    /\ Len(piano.preprocessed_notes_) < MaxApiNotes
    /\ piano' = midiNoteOff(piano, 0, key, current_time)
    /\ ApiCall("midiNoteOff")

ApiMidiAllNotesOff ==
    /\ piano' = midiAllNotesOff(piano)
    /\ ApiCall("midiAllNotesOff")

NextPiano ==
    \/ \E t \in 0 .. (MaxTracks - 1), o \in PassOutcomes : ApiPreprocessTrack(t, o)
    \/ \E has_list \in BOOLEAN, f \in MidiFiles : ApiPreprocessMidi(has_list, f)
    \/ \E pos \in ApiPositions : ApiUpdateFromAPU(pos)
    \/ ApiReset
    \/ \E enabled \in BOOLEAN : ApiSetMidiMode(enabled)
    \/ \E key \in ApiKeys, t \in ApiTimes : ApiMidiNoteOn(key, t)
    \/ \E key \in ApiKeys, t \in ApiTimes : ApiMidiNoteOff(key, t)
    \/ ApiMidiAllNotesOff

SpecPiano == Init /\ [][NextPiano]_vars

-----------------------------------------------------------------------------
(* Properties of the chiptune session *)

PassLabels == {"pre_set", "pre_open", "pre_lock", "pre_run", "pre_delete"}
RequestLabels == PassLabels \cup {"pre_check"}

(* Context c takes a step of preprocess_piano_track *)
PreprocessStep(c) == pc[c] \in RequestLabels /\ pc'[c] # pc[c]

(* The invocation returns from its error path *)
PlayFailureStep == pc["audio"] = "nsf_play" /\ pc'["audio"] = "idle"

(* C1: whenever the callback, holding audio_mutex, is about to call        *)
(* gme_play on state.emu, that handle is a live, non-null backend.         *)
C1_CallbackBackendLive ==
    pc["audio"] = "nsf_play" => EmuLive(emu)

(* C2: the callback is never at piano.updateFromAPU (holding audio_mutex)  *)
(* while a preprocessing pass holds the piano mutex it keeps for the whole *)
(* pass, that is, it never has to wait for the pass to finish.             *)
C2_CallbackNeverWaitsForPass ==
    ~(pc["audio"] = "nsf_piano" /\ piano_mutex \in Requesters)

(* C3: a seek the callback applies is a stored target not applied before,  *)
(* it is the target stored last, and it is applied before gme_play of the  *)
(* same invocation.                                                        *)
C3_SeekOnceLastWriterWins ==
    /\ ~hist.applied_stale
    /\ ~hist.applied_wrong
    /\ ~hist.applied_late

(* The callback applied the last of several targets stored before it ran   *)
(* and goes on to gme_play                                                 *)
C3_Witness ==
    /\ pc["audio"] = "nsf_play"
    /\ hist.applied_of_many
    /\ EmuLive(emu)
    /\ seek_request = NoSeek

(* C4 as stated: when an invocation completes with a backend loaded and no *)
(* target was stored during it, seek_request is -1 (whether playback is    *)
(* running, paused or stopped).                                            *)
C4_ConsumedByEveryInvocation ==
    [][(pc["audio"] # "idle" /\ pc'["audio"] = "idle" /\ emu # Null /\ emu' # Null
        /\ ~hist.cb_stored)
       => seek_request' = NoSeek]_vars

(* C4: once an invocation that found a backend loaded and playback running *)
(* has passed the exchange, seek_request is -1 until it completes unless a *)
(* target is stored after the exchange.                                    *)
C4_ConsumedByPlayingInvocation ==
    (hist.cb_exchanged /\ ~hist.xch_stored) => seek_request = NoSeek

(* An invocation that consumed a stored target is about to complete *)
C4_Witness ==
    /\ pc["audio"] = "nsf_piano"
    /\ hist.cb_exchanged /\ hist.cb_applied /\ ~hist.xch_stored

(* C6: no step of preprocess_piano_track changes the live handle, its      *)
(* position, is_playing, track_started, seek_request, playback_time or the *)
(* owner of audio_mutex; the instance a pass works on is never the live    *)
(* one, and no instance but the live one exists once the request has       *)
(* returned.                                                               *)
C6_PassLeavesLiveBackendAlone ==
    /\ [][\A c \in Requesters :
            PreprocessStep(c) =>
                UNCHANGED <<emu, emu_pos, is_playing, track_started, seek_request,
                            playback_time, audio_mutex>>]_vars
    /\ [](\A c \in Requesters : ctl[c].pre_emu # Null => ctl[c].pre_emu # emu)
    /\ []((\A c \in Requesters : pc[c] \notin PassLabels) => live_emus \subseteq {emu})

(* A pass has run on its private instance while the live backend plays *)
C6_Witness ==
    /\ pc["ui"] = "pre_delete"
    /\ piano.has_preprocessed_data_
    /\ ctl["ui"].pre_emu \in live_emus
    /\ EmuLive(emu) /\ is_playing /\ track_started

(* C8: the step in which gme_play fails ends the invocation (no retry),    *)
(* keeps the handle and leaves is_playing, track_started and playback_time *)
(* as they were, and releases audio_mutex, so that the next invocation     *)
(* reaches gme_play again.                                                 *)
C8_PlayFailureChangesNothing ==
    [][PlayFailureStep =>
         /\ UNCHANGED <<emu, live_emus, is_playing, track_started, playback_time,
                        current_track, track_count, seek_request, current_mode>>
         /\ audio_mutex' = "none"]_vars

(* The invocation after a failed one has called gme_play and it succeeded *)
C8_Witness ==
    /\ hist.prev_failed
    /\ pc["audio"] = "nsf_piano"
    /\ hist.cb_played /\ ~hist.play_failed

-----------------------------------------------------------------------------
(* Properties of the three modes and of the MIDI player *)

(* C7: an invocation that has rendered samples from a backend began in the *)
(* mode of that backend: chiptune samples only in chiptune mode, MIDI      *)
(* samples only in MIDI mode, emulator samples only in emulator mode.      *)
C7_OnlyCurrentModeBackend ==
    /\ pc["audio"] = "nsf_piano" => cb.mode = "NSF_PLAYER"
    /\ pc["audio"] = "midi_end" => cb.mode = "MIDI_PLAYER"
    /\ pc["audio"] = "nes_piano" => cb.mode = "NES_EMULATOR"

(* C9: whenever the callback is about to render from the soundfont it is a *)
(* live one, and whenever it is about to read the node under a non-null    *)
(* event cursor that node belongs to a list that has not been freed.       *)
C9_MidiObjectsLive ==
    /\ pc["audio"] = "midi_render" => SfLive(midi_state.soundfont)
    /\ (pc["audio"] = "midi_loop" /\ midi_state.midi_current # NullNode)
           => NodeLive(midi_state.midi_current)

-----------------------------------------------------------------------------
(* Properties of preprocessing *)

(* Contexts past the store of the preprocessing flag and not yet back *)
PassesInProgress ==
    {c \in Requesters : pc[c] \in {"pre_open", "pre_lock", "pre_run", "pre_delete"}}

C10_NotesHavePositiveDuration ==
    \A i \in 1..Len(piano.preprocessed_notes_) :
        piano.preprocessed_notes_[i].end_time > piano.preprocessed_notes_[i].start_time

(* A finished timeline holding a note closed by a transition and a note    *)
(* force-closed at the end of the stream                                   *)
C10_Witness ==
    /\ seg_phase = "done"
    /\ \E i, j \in 1..Len(piano.preprocessed_notes_) :
          /\ piano.preprocessed_notes_[i].end_time < piano.track_duration_
          /\ piano.preprocessed_notes_[j].end_time = piano.track_duration_

-----------------------------------------------------------------------------
(* Properties of the timeline *)

(* Of two notes of one channel the one that starts first (or together with *)
(* the other) ends no later than the other starts                          *)
ChannelNotesDisjoint(notes) ==
    \A i, j \in 1..Len(notes) :
        (i # j /\ notes[i].channel = notes[j].channel
               /\ notes[i].start_time <= notes[j].start_time)
            => notes[i].end_time <= notes[j].start_time

(* C11: in a timeline built by preprocessTrack (during the chunk loop and  *)
(* after finalization) two notes of the same channel never overlap in time. *)
C11_TrackChannelNotesDisjoint ==
    ~piano.is_midi_mode_ => ChannelNotesDisjoint(piano.preprocessed_notes_)

(* A finished chiptune timeline in which a channel changed pitch: the note *)
(* closed by the change ends where the next note of the channel starts     *)
C11_Witness ==
    /\ seg_phase = "done" /\ ~piano.is_midi_mode_
    /\ \E i, j \in 1..Len(piano.preprocessed_notes_) :
          /\ piano.preprocessed_notes_[i].channel = piano.preprocessed_notes_[j].channel
          /\ piano.preprocessed_notes_[i].midi_note # piano.preprocessed_notes_[j].midi_note
          /\ piano.preprocessed_notes_[i].end_time = piano.preprocessed_notes_[j].start_time

(* Of two notes of one key of one channel the one that starts first ends   *)
(* no later than the other starts                                          *)
KeyNotesDisjoint(notes) ==
    \A i, j \in 1..Len(notes) :
        (i # j /\ notes[i].channel = notes[j].channel
               /\ notes[i].midi_note = notes[j].midi_note
               /\ notes[i].start_time <= notes[j].start_time)
            => notes[i].end_time <= notes[j].start_time

(* C12 as stated: in a timeline built by preprocessMidi two notes of the   *)
(* same channel never overlap in time, whatever the event list.            *)
C12_MidiChannelNotesDisjoint ==
    piano.is_midi_mode_ => ChannelNotesDisjoint(piano.preprocessed_notes_)

(* C12: in a timeline built by preprocessMidi from an event list in time   *)
(* order two notes of the same key of the same channel never overlap in    *)
(* time.                                                                   *)
C12_MidiKeyNotesDisjoint ==
    piano.is_midi_mode_ => KeyNotesDisjoint(piano.preprocessed_notes_)

(* A finished MIDI timeline in which one key of one channel sounded twice  *)
C12_Witness ==
    /\ seg_phase = "done" /\ piano.is_midi_mode_
    /\ \E i, j \in 1..Len(piano.preprocessed_notes_) :
          /\ i # j
          /\ piano.preprocessed_notes_[i].channel = piano.preprocessed_notes_[j].channel
          /\ piano.preprocessed_notes_[i].midi_note = piano.preprocessed_notes_[j].midi_note
          /\ piano.preprocessed_notes_[i].end_time <= piano.preprocessed_notes_[j].start_time

(* C13: once finalization has run (finalizePreprocessing at the end of     *)
(* preprocessTrack, or the tail of preprocessMidi for a non-null list) the *)
(* notes are in ascending order of start_time and the ready flag is set.   *)
C13_SortedAndReadyAfterFinalization ==
    seg_phase = "done" =>
        /\ piano.has_preprocessed_data_
        /\ \A i \in 1..(Len(piano.preprocessed_notes_) - 1) :
              piano.preprocessed_notes_[i].start_time
                  <= piano.preprocessed_notes_[i + 1].start_time

(* A finalized timeline in which a note that was closed, and so pushed,    *)
(* later than another stands before it because it starts earlier           *)
C13_Witness ==
    /\ seg_phase = "done" /\ piano.has_preprocessed_data_
    /\ \E i, j \in 1..Len(piano.preprocessed_notes_) :
          /\ i < j
          /\ piano.preprocessed_notes_[i].start_time < piano.preprocessed_notes_[j].start_time
          /\ piano.preprocessed_notes_[i].end_time > piano.preprocessed_notes_[j].end_time

(* C14: from the return of a preprocessTrack that failed (track metadata   *)
(* not reported, or track not started) until the next pass begins, the     *)
(* note list is empty and the ready flag is false.                         *)
C14_FailedPassLeavesNoTimeline ==
    hist.failed_pass # "none" =>
        /\ piano.preprocessed_notes_ = <<>>
        /\ ~piano.has_preprocessed_data_
        /\ piano.track_duration_ = 0

(* After a failed pass the callback has run updateFromAPU and a key of the *)
(* live keyboard is shown pressed                                          *)
C14_Witness ==
    /\ hist.failed_pass = "updated"
    /\ piano.preprocessed_notes_ = <<>> /\ ~piano.has_preprocessed_data_
    /\ \E ch \in 0..(PIANO_NUM_CHANNELS_BASE - 1) : piano.current_notes_[ch].active

(* C15 as stated: the chunk loop runs at most ceil(H / chunk period)       *)
(* iterations, H the horizon in seconds.                                   *)
C15_AtMostCeilIterations ==
    pass_clock.phase # "idle" =>
        pass_clock.chunks_processed <= CeilChunks(pass_clock.estimated_duration)

(* C15: whatever the backend reports, the chunk loop runs at most          *)
(* ceil(H / chunk period) + 1 iterations, and when the clock has reached   *)
(* the horizon the track duration exceeds H by less than one chunk period. *)
C15_LoopBoundedByHorizon ==
    pass_clock.phase # "idle" =>
        /\ pass_clock.chunks_processed <= CeilChunks(pass_clock.estimated_duration) + 1
        /\ ~ClockBelowHorizon(pass_clock) =>
               ExcessBelowChunkPeriod(pass_clock.current_time, pass_clock.estimated_duration)

(* A pass on a track that declares no length has run to the default        *)
(* horizon: the backend never reported the end of the track                *)
C15_Witness ==
    /\ pass_clock.phase = "done"
    /\ pass_clock.estimated_duration = DefaultDurationMs \div 1000
    /\ ~ClockBelowHorizon(pass_clock)
    /\ pass_clock.chunks_processed > 0

-----------------------------------------------------------------------------
(* Properties of loading and of the player window *)

(* load_nsf_file has returned from one of its error paths (its caller is   *)
(* about to call postload_preprocess)                                      *)
FailedLoadReturned == pc["ui"] = "pre_check" /\ ctl["ui"].outcome # "ok"

(* C16: when load_nsf_file has failed there is no backend handle and no    *)
(* backend instance left, is_playing and track_started are false, no seek  *)
(* is pending and the error message is set; and an invocation of the       *)
(* callback that tests the handle while there is none returns silence      *)
(* without touching position or playback time.                             *)
C16_FailedLoadLeavesIdle ==
    /\ [](FailedLoadReturned =>
             /\ emu = Null /\ live_emus = {}
             /\ ~is_playing /\ ~track_started
             /\ seek_request = NoSeek
             /\ error_msg)
    /\ [][(emu = Null /\ pc["audio"] = "nsf_check" /\ pc'["audio"] # "nsf_check")
             => /\ pc'["audio"] = "idle"
                /\ UNCHANGED <<emu_pos, playback_time, audio_mutex>>]_vars

(* A load has failed after an earlier one had succeeded, and an invocation *)
(* of the callback is about to test the handle                             *)
C16_Witness ==
    /\ FailedLoadReturned
    /\ loaded_file # 0
    /\ pc["audio"] = "nsf_check"

(* C17: when the auto-advance of the player window goes on from            *)
(* preprocess_piano_track to safe_start_track, it does so from the end of  *)
(* a preprocessing pass run for the new current track.                     *)
C17_AdvanceRunsFreshPass ==
    [][(ctl["ui"].advanced /\ pc["ui"] \in RequestLabels /\ pc'["ui"] = "sst_check")
         => (pc["ui"] = "pre_delete" /\ ctl["ui"].pre_track = current_track)]_vars

-----------------------------------------------------------------------------
(* Properties of the end of a MIDI file *)

(* The cursor is at the end of a loaded event list *)
MidiAtEnd == midi_state.midi_file # Null /\ midi_state.midi_current = NullNode

(* A step of the stop button, the seek slider or load_midi_file *)
MidiStopSeekOrLoad ==
    \/ UiMidiStop
    \/ \E target \in {0, FramesMs} : UiMidiSeek(target)
    \/ \E ok \in BOOLEAN, f \in MidiFiles : UiLoadMidi(ok, f)
    \/ UiLoadMidiOpen

(* C18: the invocation that finds the event cursor at the end of the list  *)
(* sets midi_playing false and leaves midi_time at the end time it has     *)
(* reached (above 0) and the cursor at the end; from then on the cursor    *)
(* stays at the end and midi_time is not taken back until a stop, a seek   *)
(* or a load.                                                              *)
C18_MidiEndLeavesPosition ==
    /\ [][(pc["audio"] = "midi_end" /\ pc'["audio"] = "idle" /\ MidiAtEnd)
             => /\ ~midi_state'.midi_playing
                /\ midi_state'.midi_time = cb.end_time
                /\ midi_state'.midi_time > 0
                /\ midi_state'.midi_current = NullNode]_vars
    /\ [][(MidiAtEnd /\ midi_state.midi_file \in DOMAIN live_midi
             /\ (midi_state'.midi_current # NullNode
                   \/ midi_state'.midi_time < midi_state.midi_time))
             => MidiStopSeekOrLoad]_vars
    /\ [](hist.midi_ended => midi_state.midi_current = NullNode /\ midi_state.midi_time > 0)

(* The callback has walked a live list to its end and marked playback      *)
(* stopped                                                                 *)
C18_Witness ==
    /\ hist.midi_ended
    /\ pc["audio"] = "idle"
    /\ ~midi_state.midi_playing
    /\ midi_state.midi_file \in DOMAIN live_midi
    /\ Len(live_midi[midi_state.midi_file]) > 0
    /\ midi_state.midi_time > 0

-----------------------------------------------------------------------------
(* Properties of pitch inference *)

Probed == apu_probe # ProbeIdle

(* C19 as stated: a pulse channel sounds only if length > 0, amplitude > 0 *)
(* and period >= 8; the triangle channel sounds whenever length > 0 and    *)
(* period >= 8; the noise channel sounds only if length > 0 and            *)
(* amplitude > 0; the DMA channel is silent iff length <= 0 and otherwise  *)
(* yields the fixed pitch with velocity 0.8; for amplitudes of either sign. *)
C19_GatingOnPositiveAmplitude ==
    Probed =>
        /\ (apu_probe.ch \in {0, 1} /\ apu_probe.sounding)
               => (apu_probe.length > 0 /\ apu_probe.amp > 0 /\ apu_probe.period >= 8)
        /\ apu_probe.ch = 2
               => (apu_probe.sounding <=> (apu_probe.length > 0 /\ apu_probe.period >= 8))
        /\ (apu_probe.ch = 3 /\ apu_probe.sounding)
               => (apu_probe.length > 0 /\ apu_probe.amp > 0)
        /\ apu_probe.ch = 4
               => /\ ~apu_probe.sounding <=> apu_probe.length <= 0
                  /\ apu_probe.sounding => (apu_probe.midi_note = DmcNote
                                              /\ apu_probe.velocity = FixedVelocity)

(* C19: a pulse channel sounds iff length > 0, the amplitude is not 0 and  *)
(* period >= 8; the triangle channel sounds iff length > 0 and period >= 8, *)
(* whatever the amplitude; the noise channel sounds iff length > 0 and the *)
(* amplitude is not 0; the DMA channel sounds iff length > 0, with the     *)
(* fixed pitch and velocity 0.8; for amplitudes of either sign (the        *)
(* amplitude is gated by its absolute value).                              *)
C19_GatingOnAbsoluteAmplitude ==
    Probed =>
        /\ apu_probe.ch \in {0, 1}
               => (apu_probe.sounding <=>
                     (apu_probe.length > 0 /\ apu_probe.amp # 0 /\ apu_probe.period >= 8))
        /\ apu_probe.ch = 2
               => (apu_probe.sounding <=> (apu_probe.length > 0 /\ apu_probe.period >= 8))
        /\ apu_probe.ch = 3
               => (apu_probe.sounding <=> (apu_probe.length > 0 /\ apu_probe.amp # 0))
        /\ apu_probe.ch = 4
               => /\ apu_probe.sounding <=> apu_probe.length > 0
                  /\ apu_probe.sounding => (apu_probe.midi_note = DmcNote
                                              /\ apu_probe.velocity = FixedVelocity)

(* A pulse channel with a negative amplitude opens a note *)
C19_Witness ==
    /\ apu_probe.ch = 0 /\ apu_probe.amp < 0 /\ apu_probe.length > 0
    /\ apu_probe.period >= 8
    /\ apu_probe.sounding

(* A pulse channel whose gate is open: length > 0, amplitude not 0, and a  *)
(* period of at least 8                                                    *)
GatedOnPulse ==
    /\ Probed /\ apu_probe.ch \in {0, 1}
    /\ apu_probe.length > 0 /\ apu_probe.amp # 0 /\ apu_probe.period >= 8

(* The pitch is the rounded value of 69 + 12 log2(f / 440) for the         *)
(* frequency f = 1789773 / (16 (P + 1)): f lies in the band of that note,  *)
(* half a semitone to either side of it, and the note is in 0..127         *)
PitchIsRounded ==
    /\ apu_probe.midi_note \in 0 .. 127
    /\ NoteEdge(apu_probe.midi_note) * 16 * (apu_probe.period + 1) <= NES_CPU_CLOCK * 1000
    /\ NES_CPU_CLOCK * 1000 < (NoteEdge(apu_probe.midi_note + 1) + 1) * 16 * (apu_probe.period + 1)

(* Periods and the notes the formula gives for them *)
KnownPitch == [period \in {8, 15, 100, 253, 2047} |->
                 CASE period = 8 -> 127 [] period = 15 -> 117 [] period = 100 -> 85
                   [] period = 253 -> 69 [] period = 2047 -> 33]

(* C20 as stated: for a gated-on pulse channel the pitch is the rounded    *)
(* value of the formula, period 253 yields note 57, and period 7 is silent *)
(* regardless of amplitude.                                                *)
C20_Period253YieldsNote57 ==
    /\ GatedOnPulse => PitchIsRounded
    /\ (GatedOnPulse /\ apu_probe.period = 253) => apu_probe.midi_note = 57
    /\ (Probed /\ apu_probe.ch \in {0, 1} /\ apu_probe.period = 7)
           => (apu_probe.midi_note = -1 /\ ~apu_probe.sounding)

(* C20: for a gated-on pulse channel with period P >= 8 the pitch is the   *)
(* rounded value of 69 + 12 log2((1789773 / (16 (P + 1))) / 440), which is *)
(* in 0..127 for every 11-bit period; period 253 yields note 69 (440.4 Hz), *)
(* and period 7 is silent regardless of amplitude.                         *)
C20_PitchFormula ==
    /\ GatedOnPulse => PitchIsRounded
    /\ (GatedOnPulse /\ apu_probe.period \in DOMAIN KnownPitch)
           => apu_probe.midi_note = KnownPitch[apu_probe.period]
    /\ (Probed /\ apu_probe.ch \in {0, 1} /\ apu_probe.period = 7)
           => (apu_probe.midi_note = -1 /\ ~apu_probe.sounding)

(* A gated-on pulse channel with period 253 has been given its pitch *)
C20_Witness ==
    /\ GatedOnPulse /\ apu_probe.period = 253 /\ apu_probe.ch = 1
    /\ apu_probe.midi_note = 69 /\ apu_probe.sounding

-----------------------------------------------------------------------------
(* Properties of MIDI preprocessing *)

(* The event list with every note-off replaced by a zero-velocity note-on *)
OffsAsZeroVelocityOns(list) ==
    [i \in DOMAIN list |->
        IF list[i].type = "NOTE_OFF"
        THEN [list[i] EXCEPT !.type = "NOTE_ON", !.velocity = 0]
        ELSE list[i]]

OnThenZeroVelocityOn ==
    <<Ev(0, "NOTE_ON", 0, 60, 100), Ev(500, "NOTE_ON", 0, 60, 0)>>

(* C21: the timeline preprocessMidi builds from an event list is the one   *)
(* it builds from the list with every note-off replaced by a zero-velocity *)
(* note-on (same notes, same duration), and note-on(ch 0, key 60, vel 100) *)
(* at 0 followed by note-on(ch 0, key 60, vel 0) at 500 ms yields exactly   *)
(* one note {channel 0, pitch 60, start 0.0, end 0.5, velocity 100/127}.   *)
C21_ZeroVelocityOnIsOff ==
    (seg_phase = "done" /\ piano.is_midi_mode_) =>
        /\ LET alt == preprocessMidi(piano, TRUE, OffsAsZeroVelocityOns(midi_list))
           IN  /\ piano.preprocessed_notes_ = alt.preprocessed_notes_
               /\ piano.track_duration_ = alt.track_duration_
        /\ midi_list = OnThenZeroVelocityOn
               => piano.preprocessed_notes_ = <<Note(0, 60, (100 * 1000) \div 127, 0, 500)>>

(* The list of the example has been preprocessed *)
C21_Witness ==
    /\ seg_phase = "done" /\ piano.is_midi_mode_
    /\ midi_list = OnThenZeroVelocityOn
    /\ Len(piano.preprocessed_notes_) = 1

-----------------------------------------------------------------------------
(* Properties of the PianoVisualizer object *)

(* The timeline preprocessTrack builds for track t on a visualizer that    *)
(* has just been constructed                                               *)
FirstPass(t) ==
    ChunkLoop(PreprocessTrackReset(PianoInit, FALSE), t, 1, 0,
              EstimatedDuration(TrackLengthMs))

(* C22: whatever calls came before it (an earlier pass, live updates, a    *)
(* MIDI preprocessing, MIDI note calls), a successful preprocessTrack for  *)
(* track t leaves the sorted note list and the duration that the first     *)
(* pass for track t on a fresh visualizer leaves; so two passes in         *)
(* sequence on the same track yield identical lists and durations.         *)
C22_PassIndependentOfEarlierState ==
    api.op = "preprocessTrack" =>
        /\ piano.preprocessed_notes_ = FirstPass(api.track).preprocessed_notes_
        /\ piano.track_duration_ = FirstPass(api.track).track_duration_
        /\ piano.has_preprocessed_data_

(* A pass has run for track 1 on a visualizer that held a timeline, a      *)
(* sounding key or the MIDI flag, and has built a timeline with notes      *)
C22_Witness ==
    /\ api.op = "preprocessTrack" /\ api.track = 1 /\ api.dirty
    /\ Len(piano.preprocessed_notes_) >= 2

(* C26: in every state in which the timeline is marked ready the note list *)
(* is sorted by start_time ascending, after any sequence of calls of the   *)
(* public methods, midiNoteOn followed by midiNoteOff among them.          *)
C26_ReadyTimelineSorted ==
    piano.has_preprocessed_data_ =>
        \A i, j \in 1 .. Len(piano.preprocessed_notes_) :
            i < j => piano.preprocessed_notes_[i].start_time
                         <= piano.preprocessed_notes_[j].start_time

-----------------------------------------------------------------------------
(* Properties of the MIDI callback *)

(* The position of the cursor in the loaded list: past the end if null *)
CursorIndex ==
    IF midi_state.midi_current = NullNode
    THEN Len(live_midi[midi_state.midi_file]) + 1
    ELSE midi_state.midi_current.idx

(* Between callbacks the cursor stands at the first event whose timestamp  *)
(* is not below midi_time                                                  *)
CursorSplitsAtMidiTime ==
    (/\ pc["audio"] = "idle" /\ pc["ui"] = "idle"
     /\ midi_state.midi_file # Null)
        => \A i \in 1 .. Len(live_midi[midi_state.midi_file]) :
               live_midi[midi_state.midi_file][i].time < midi_state.midi_time
                   <=> i < CursorIndex

(* C23: with every control action between two callbacks, a callback moves  *)
(* the cursor forward one event at a time, each event it passes having a   *)
(* timestamp in [midi_time, midi_time + frames/sample_rate); between       *)
(* callbacks the events before the cursor are exactly those with a         *)
(* timestamp below midi_time; a callback that plays advances midi_time by  *)
(* frames/sample_rate, and one that does not leaves the MIDI state alone.  *)
C23_EventsDispatchedInOrder ==
    /\ []CursorSplitsAtMidiTime
    /\ [][(pc["audio"] = "midi_loop" /\ midi_state'.midi_current # midi_state.midi_current)
            => LET cur == midi_state.midi_current
                   msg == live_midi[cur.list][cur.idx]
               IN  /\ midi_state.midi_time <= msg.time
                   /\ msg.time < midi_state.midi_time + FramesMs
                   /\ midi_state'.midi_current =
                          IF cur.idx < Len(live_midi[cur.list])
                          THEN [list |-> cur.list, idx |-> cur.idx + 1] ELSE NullNode]_vars
    /\ [][(pc["audio"] = "midi_end" /\ pc'["audio"] = "idle")
            => midi_state'.midi_time = midi_state.midi_time + FramesMs]_vars
    /\ [][(pc["audio"] \in {"idle", "nsf_check", "midi_render"}
             /\ pc'["audio"] # pc["audio"])
            => midi_state' = midi_state]_vars

(* Two callbacks in a row have dispatched the whole list, the second one   *)
(* an event of its own window                                              *)
C23_Witness ==
    /\ pc["audio"] = "idle" /\ pc["ui"] = "idle"
    /\ midi_state.midi_file # Null
    /\ midi_state.midi_current = NullNode
    /\ midi_state.midi_time = 2 * FramesMs
    /\ \E i \in 1 .. Len(live_midi[midi_state.midi_file]) :
           live_midi[midi_state.midi_file][i].time >= FramesMs

-----------------------------------------------------------------------------
(* Properties of oscillator segmentation *)

NotesOf(notes, ch) == SelectSeq(notes, LAMBDA n : n.channel = ch)

(* The note of the run that is open on channel ch, closed at end_time *)
RunNote(ch, end_time) ==
    Note(ch, piano.preprocess_prev_notes_[ch], piano.preprocess_note_velocity_[ch],
         piano.preprocess_note_start_[ch], end_time)

(* What the notes of channel ch are after the open run, if any, has ended  *)
(* at end_time: one more note if the run lasted more than 10 ms            *)
RunClosed(ch, end_time) ==
    IF /\ piano.preprocess_prev_notes_[ch] >= 0
       /\ end_time - piano.preprocess_note_start_[ch] > MinNoteMs
    THEN Append(NotesOf(piano.preprocessed_notes_, ch), RunNote(ch, end_time))
    ELSE NotesOf(piano.preprocessed_notes_, ch)

(* The rule for channel ch at a time step at which it shows pitch and      *)
(* velocity inf                                                            *)
RunRule(ch, inf) ==
    LET continues == /\ inf.midi_note = piano.preprocess_prev_notes_[ch]
                     /\ inf.midi_note >= 0
    IN  IF continues
        THEN /\ NotesOf(piano'.preprocessed_notes_, ch) = NotesOf(piano.preprocessed_notes_, ch)
             /\ piano'.preprocess_prev_notes_[ch] = piano.preprocess_prev_notes_[ch]
             /\ piano'.preprocess_note_start_[ch] = piano.preprocess_note_start_[ch]
             /\ piano'.preprocess_note_velocity_[ch] = piano.preprocess_note_velocity_[ch]
        ELSE /\ NotesOf(piano'.preprocessed_notes_, ch) = RunClosed(ch, seg_time)
             /\ IF inf.midi_note \in 0 .. 127
                THEN /\ piano'.preprocess_prev_notes_[ch] = inf.midi_note
                     /\ piano'.preprocess_note_start_[ch] = seg_time
                     /\ piano'.preprocess_note_velocity_[ch] = inf.velocity
                ELSE piano'.preprocess_prev_notes_[ch] = -1

(* C24: at a time step a channel whose pitch is that of the step before    *)
(* emits nothing and keeps the start and the velocity of the run's first   *)
(* step, whatever its velocity now; a channel whose pitch changed or fell  *)
(* silent ends its run with one note from the run's first step to this     *)
(* step, with the first step's velocity, dropped only if not longer than   *)
(* 10 ms, and a valid new pitch starts a run at this step; finalization    *)
(* ends every open run likewise at the finalization time.                  *)
C24_RunYieldsOneNote ==
    /\ [][\A snap \in SegSnapshots :
             (/\ seg_phase = "track" /\ seg_chunks' = seg_chunks + 1
              /\ piano' = ProcessChunk(piano, snap, seg_time)) =>
                 /\ \A ch \in 0 .. (PIANO_NUM_CHANNELS_BASE - 1) :
                        \A inf \in {ApuInfer(ch, snap.apu[ch])} : RunRule(ch, inf)
                 /\ piano.has_vrc6_ =>
                        \A i \in 0 .. (PIANO_NUM_CHANNELS_VRC6 - 1) :
                            \A inf \in {Vrc6Infer(i, snap.vrc6[i])} :
                                RunRule(PIANO_NUM_CHANNELS_BASE + i, inf)]_vars
    /\ [][SegFinalize =>
             \A ch \in Channels :
                 /\ NotesOf(piano'.preprocessed_notes_, ch) = RunClosed(ch, seg_time)
                 /\ piano'.preprocess_prev_notes_[ch] = -1]_vars

(* A run of three steps on the second pulse channel, at the second of      *)
(* which the noise channel fell silent and the pulse had another velocity, *)
(* has become one note from the first step to the finalization, with the   *)
(* first step's velocity                                                   *)
C24_Witness ==
    /\ seg_phase = "done" /\ seg_chunks = 3 /\ seg_time = 3 * TimePerChunk
    /\ NotesOf(piano.preprocessed_notes_, 1)
           = <<Note(1, 69, Velocity(4, 15), 0, 3 * TimePerChunk)>>
    /\ Len(NotesOf(piano.preprocessed_notes_, 3)) = 2

-----------------------------------------------------------------------------
(* Properties of a track change *)

(* C25: when start_track_with_preprocess(t) returns (safe_start_track has   *)
(* started track t), a timeline that is marked ready is the one            *)
(* preprocessTrack computes for track t: no timeline of another track is   *)
(* left marked ready, also when the request was rejected or failed before  *)
(* the pass started.                                                       *)
C25_ReadyTimelineIsOfStartedTrack ==
    [][(pc["ui"] = "sst_lock" /\ pc'["ui"] = "idle" /\ piano'.has_preprocessed_data_)
         => /\ piano'.preprocessed_notes_ = FirstPass(current_track').preprocessed_notes_
            /\ piano'.track_duration_ = FirstPass(current_track').track_duration_]_vars

-----------------------------------------------------------------------------
(* Properties of the playing flag *)

(* Playback is marked running only with a backend loaded and its track     *)
(* started                                                                 *)
PlayingImpliesStarted == is_playing => (emu # Null /\ track_started)

(* C27: in every state is_playing implies that a backend handle is loaded  *)
(* and that its track has been started; and the callback, when it is about *)
(* to generate audio from the backend, has a backend whose track has been  *)
(* started.                                                                *)
C27_CallbackPlaysStartedTrack ==
    /\ PlayingImpliesStarted
    /\ (pc["audio"] = "nsf_play" /\ EmuLive(emu)) => hist.emu_started

-----------------------------------------------------------------------------
(* Properties of the piano's MIDI-mode flag *)

(* C29: after every successful load the piano's MIDI-mode flag agrees with *)
(* the session mode: it is true after a MIDI load, false after a chiptune  *)
(* load and false after a ROM load, whatever loads came before.            *)
C29_MidiFlagFollowsMode ==
    [][/\ (UiLoadMidiOpen /\ ctl["ui"].outcome = "ok") =>
             (current_mode' = "MIDI_PLAYER" /\ piano'.is_midi_mode_)
       /\ (UiLoadOpen /\ ctl["ui"].outcome = "ok") =>
             (current_mode' = "NSF_PLAYER" /\ ~piano'.is_midi_mode_)
       /\ UiLoadRom(TRUE) =>
             (current_mode' = "NES_EMULATOR" /\ ~piano'.is_midi_mode_)]_vars

-----------------------------------------------------------------------------
(* Properties of the backend handle kept by the visualizer *)

(* The control context is inside load_nsf_file or cleanup, between the     *)
(* deletion of the backend and the end of the function                     *)
InsideLoadOrCleanup == pc["ui"] \in {"load_open", "cleanup_free"}

(* C30: the backend handle retained by AudioVisualizer (emu_) is null or   *)
(* the session's current live backend; once load_nsf_file (successful or   *)
(* failed) or cleanup is over it never refers to a deleted backend.        *)
C30_VisualizerBackendLive ==
    ~InsideLoadOrCleanup => (viz_emu = Null \/ (viz_emu = emu /\ EmuLive(emu)))

-----------------------------------------------------------------------------
(* The order in which the mutexes are taken.  Each function of the two     *)
(* threads is reduced to the lock operations it performs, in program order *)
(* (a std::lock_guard is an acquire at its declaration and a release at    *)
(* the end of its scope).                                                  *)

Acq(m) == <<"acq", m>>
Rel(m) == <<"rel", m>>

(* A call of a method whose body is one lock_guard scope *)
Locked(m) == <<Acq(m), Rel(m)>>

(* The callback, chiptune branch: lock_guard(audio_mutex) to the end of    *)
(* the function; under it updateAudioData, updateChannelAmplitudesFromAPU, *)
(* piano.updateFromAPU and, with a VRC6, updateVRC6ChannelAmplitudes and   *)
(* piano.updateFromVRC6                                                    *)
CallbackNsfLocks(vrc6) ==
    <<Acq("audio_mutex")>> \o Locked("visualizer") \o Locked("visualizer")
        \o Locked("piano")
        \o (IF vrc6 THEN Locked("visualizer") \o Locked("piano") ELSE <<>>)
        \o <<Rel("audio_mutex")>>

(* The callback, emulator branch: readAudioSamples, updateAudioData,       *)
(* getApuState, updateChannelAmplitudesFromAPU, piano.updateFromAPU and,   *)
(* with a VRC6, getVRC6State, updateVRC6ChannelAmplitudes, updateFromVRC6  *)
CallbackNesLocks(vrc6) ==
    Locked("emulator") \o Locked("visualizer") \o Locked("emulator")
        \o Locked("visualizer") \o Locked("piano")
        \o (IF vrc6
            THEN Locked("emulator") \o Locked("visualizer") \o Locked("piano")
            ELSE <<>>)

(* The callback, MIDI branch: updateAudioData *)
CallbackMidiLocks == Locked("visualizer")

(* The variant takes audio_mutex while it holds the piano mutex *)
PreprocessPianoTrackLocksThenAudio ==
    <<Acq("piano"), Acq("audio_mutex"), Rel("audio_mutex"), Rel("piano")>>

(* preprocess_piano_track: piano.preprocessTrack, called without           *)
(* audio_mutex                                                             *)
PreprocessPianoTrackLocks == Locked("piano")

(* safe_start_track: lock_guard(audio_mutex) around gme_start_track *)
SafeStartTrackLocks == Locked("audio_mutex")

(* load_nsf_file: lock_guard(audio_mutex) to the end of the function; on   *)
(* success visualizer.init and piano.reset under it                        *)
LoadNsfFileLocks(ok) ==
    <<Acq("audio_mutex")>>
        \o (IF ok THEN Locked("visualizer") \o Locked("piano") ELSE <<>>)
        \o <<Rel("audio_mutex")>>

(* load_nes_rom: loadROMData, then on success visualizer.reset and         *)
(* piano.reset                                                             *)
LoadNesRomLocks(ok) ==
    Locked("emulator")
        \o (IF ok THEN Locked("visualizer") \o Locked("piano") ELSE <<>>)

(* load_midi_file: piano.preprocessMidi, visualizer.reset *)
LoadMidiFileLocks == Locked("piano") \o Locked("visualizer")

(* reset_midi_playback: piano.midiAllNotesOff *)
ResetMidiPlaybackLocks == Locked("piano")

(* One frame of the main thread: runFrame in emulator mode, the scope and  *)
(* the spectrum of the visualizer window, updateMidiTime in MIDI mode, the *)
(* keyboard and the roll of the piano window                               *)
FrameLocks(mode) ==
    (IF mode = "NES_EMULATOR" THEN Locked("emulator") ELSE <<>>)
        \o Locked("visualizer") \o Locked("visualizer")
        \o (IF mode = "MIDI_PLAYER" THEN Locked("piano") ELSE <<>>)
        \o Locked("piano") \o Locked("piano")

(* cleanup: a lock_guard(audio_mutex) scope around gme_delete *)
CleanupLocks == Locked("audio_mutex")

(* Context c, running no function, enters one *)
LockCall(c, program) ==
    /\ locks.todo[c] = <<>>
    /\ locks' = [locks EXCEPT !.todo[c] = program]
    /\ UNCHANGED <<sessionVars, piano, seg_phase, seg_time, seg_chunks, midi_list,
                   pass_clock, apu_probe, api>>

(* std::mutex::lock: blocks while the mutex has an owner *)
LockAcquire(c) ==
    /\ locks.todo[c] # <<>>
    /\ Head(locks.todo[c])[1] = "acq"
    /\ locks.owner[Head(locks.todo[c])[2]] = "none"
    /\ locks' = [locks EXCEPT !.owner[Head(locks.todo[c])[2]] = c,
                              !.todo[c] = Tail(@)]
    /\ UNCHANGED <<sessionVars, piano, seg_phase, seg_time, seg_chunks, midi_list,
                   pass_clock, apu_probe, api>>

(* The end of a lock_guard scope *)
LockRelease(c) ==
    /\ locks.todo[c] # <<>>
    /\ Head(locks.todo[c])[1] = "rel"
    /\ locks' = [locks EXCEPT !.owner[Head(locks.todo[c])[2]] = "none",
                              !.todo[c] = Tail(@)]
    /\ UNCHANGED <<sessionVars, piano, seg_phase, seg_time, seg_chunks, midi_list,
                   pass_clock, apu_probe, api>>

AudioCalls ==
    \/ \E vrc6 \in BOOLEAN : LockCall("audio", CallbackNsfLocks(vrc6))
    \/ \E vrc6 \in BOOLEAN : LockCall("audio", CallbackNesLocks(vrc6))
    \/ LockCall("audio", CallbackMidiLocks)

UiCalls ==
    \/ LockCall("ui", PreprocessPianoTrackLocks)
    \/ LockCall("ui", SafeStartTrackLocks)
    \/ \E ok \in BOOLEAN : LockCall("ui", LoadNsfFileLocks(ok))
    \/ \E ok \in BOOLEAN : LockCall("ui", LoadNesRomLocks(ok))
    \/ LockCall("ui", LoadMidiFileLocks)
    \/ LockCall("ui", ResetMidiPlaybackLocks)
    \/ \E mode \in {"NSF_PLAYER", "NES_EMULATOR", "MIDI_PLAYER"} :
           LockCall("ui", FrameLocks(mode))
    \/ LockCall("ui", CleanupLocks)

NextLocks ==
    \/ AudioCalls
    \/ UiCalls
    \/ \E c \in LockContexts : LockAcquire(c)
    \/ \E c \in LockContexts : LockRelease(c)

(* A thread that holds a lock runs on to the end of the scope, and a       *)
(* thread blocked in lock() gets the mutex if it is free again and again   *)
SpecLocks ==
    /\ Init /\ [][NextLocks]_vars
    /\ \A c \in LockContexts : WF_vars(LockRelease(c)) /\ SF_vars(LockAcquire(c))

(* The mutex context c is about to lock, "none" if it is not at a lock() *)
Wanted(c) ==
    IF locks.todo[c] # <<>> /\ Head(locks.todo[c])[1] = "acq"
    THEN Head(locks.todo[c])[2]
    ELSE "none"

(* c is blocked in lock() *)
Waiting(c) == Wanted(c) # "none" /\ locks.owner[Wanted(c)] # "none"

(* No context waits for a mutex it holds itself, or for one whose holder   *)
(* is waiting too                                                          *)
NoWaitCycle ==
    \A c \in LockContexts :
        Waiting(c) => /\ locks.owner[Wanted(c)] # c
                      /\ ~Waiting(locks.owner[Wanted(c)])

(* audio_mutex is only taken by a context that holds nothing, and nothing  *)
(* is taken under the visualizer, piano and emulator mutexes               *)
LockOrder ==
    \A c \in LockContexts :
        Wanted(c) # "none" =>
            \A m \in Mutexes : locks.owner[m] = c => m = "audio_mutex" /\ Wanted(c) # m

====
